---- MODULE Spec2Model ----
(***************************************************************************)
(* CodeCell: the project store (dirty tracking, save / save-as / open) and *)
(* the per-window execution coordinator of the compiled editor.            *)
(*                                                                         *)
(* Two state machines share the variables below:                           *)
(*   SpecStore  - src/src/stores/projectStore.ts (one window's store).     *)
(*                One asynchronous store call is in flight at a time; the  *)
(*                synchronous operations interleave with it at each await. *)
(*                The wall clock stands still (now = 0).                   *)
(*   SpecExec   - CompiledEditor's run/stop handlers and event listeners   *)
(*                in two editor windows, with the executor that answers    *)
(*                their calls and emits their events.                      *)
(***************************************************************************)
EXTENDS Integers, Sequences, FiniteSets, TLC

(***************************************************************************)
(* Bounds of the model.                                                    *)
(***************************************************************************)
MaxProjects == 1      \* project ids handed out by crypto.randomUUID()
MaxOutputs == 1       \* output events one run emits
MaxRuns == 2          \* run requests the windows issue, all together
MaxStops == 1         \* stop requests of one window awaiting their answer
MaxQueued == 1        \* events for one window emitted and not yet delivered
MaxFresh == 11        \* projects with ids of their own added to the recent list
MaxReadds == 2        \* addRecentProject calls for a project already added
MaxUuid == 8          \* ids crypto.randomUUID() may hand to buildProject
MaxStamp == 1         \* clock readings buildProject may see
MaxClones == 2        \* projects created from custom templates
MaxEdits == 1         \* updateFile calls on projects made from custom templates
MaxSaved == 1         \* saveAsTemplate calls
MaxNow == 2           \* clock readings of the machines in which the clock runs
MaxCloseRequests == 1 \* close requests of the user not yet handed to the listeners

(***************************************************************************)
(* Values.                                                                 *)
(***************************************************************************)
\* JavaScript null for a Project | null, an ExecutionResult | null.
NoProject == [null |-> TRUE]
NoResult == [null |-> TRUE]
\* A path is a sequence of tokens; null (and the empty string, which the
\* code's truthiness tests treat alike) is the empty sequence.
NoPath == << >>
NoTime == -1
\* Map.get of a missing key.
Undefined == "<undefined>"

PathA == <<"/", "tmp", "/", "note", ".codecell">>
PathB == <<"C:", "\\", "b", ".codecell">>
Paths == {PathA, PathB}

\* The templates the store machine instantiates; generateDefaultFiles itself
\* covers all six.
StoreTemplates == {"python", "node"}
\* TemplateType, and an identifier outside it.
TemplateTypes == {"web", "node", "python", "rust", "java", "typescript"}
TemplateIds == TemplateTypes \cup {"go"}
\* What an editor can put in a file besides its starter source.
EditContents == {"x"}

(***************************************************************************)
(* Project Entity & Builder.                                               *)
(***************************************************************************)
File(n, l, c) == [name |-> n, language |-> l, content |-> c]

\* The starter source of a default file: a distinct non-empty text per file.
Starter(n) == "starter:" \o n

\* generateDefaultFiles before the typescript template was added.
generateDefaultFilesNoTypescript(template) ==
  CASE template = "web" ->
         << File("index.html", "html", Starter("index.html")),
            File("style.css", "css", Starter("style.css")),
            File("script.js", "javascript", Starter("script.js")) >>
    [] template = "node" -> << File("index.js", "javascript", Starter("index.js")) >>
    [] template = "python" -> << File("main.py", "python", Starter("main.py")) >>
    [] template = "rust" -> << File("main.rs", "rust", Starter("main.rs")) >>
    [] template = "java" -> << File("Main.java", "java", Starter("Main.java")) >>
    [] OTHER -> << >>

generateDefaultFiles(template) ==
  CASE template = "web" ->
         << File("index.html", "html", Starter("index.html")),
            File("style.css", "css", Starter("style.css")),
            File("script.js", "javascript", Starter("script.js")) >>
    [] template = "node" -> << File("index.js", "javascript", Starter("index.js")) >>
    [] template = "python" -> << File("main.py", "python", Starter("main.py")) >>
    [] template = "rust" -> << File("main.rs", "rust", Starter("main.rs")) >>
    [] template = "java" -> << File("Main.java", "java", Starter("Main.java")) >>
    [] template = "typescript" -> << File("index.ts", "typescript", Starter("index.ts")) >>
    [] OTHER -> << >>

buildProject(template, id, t) ==
  [ id |-> id, name |-> "Untitled", template |-> template,
    files |-> generateDefaultFiles(template),
    updatedAt |-> t, savedPath |-> NoPath ]

(***************************************************************************)
(* Dirty-tracking helpers.                                                 *)
(***************************************************************************)
FileNames(files) == { files[i].name : i \in DOMAIN files }

\* new Map(); files.forEach((f) => snapshot.set(f.name, f.content))
SnapshotOf(files) ==
  [ n \in FileNames(files) |->
      LET idx == { i \in DOMAIN files : files[i].name = n }
          last == CHOOSE i \in idx : \A j \in idx : j <= i
      IN files[last].content ]

EmptySnapshot == SnapshotOf(<< >>)

\* cleanFilesSnapshot.get(name)
SnapGet(snap, n) == IF n \in DOMAIN snap THEN snap[n] ELSE Undefined

\* updatedFiles.some((file) => cleanFilesSnapshot.get(file.name) !== file.content)
SomeFileDiffers(files, snap) ==
  \E i \in DOMAIN files : SnapGet(snap, files[i].name) # files[i].content

\* MapContent giving the content to every file once one has the name.
MapContentAll(files, fileName, content) ==
  [ i \in DOMAIN files |->
      IF \E j \in DOMAIN files : files[j].name = fileName
        THEN [files[i] EXCEPT !.content = content]
        ELSE files[i] ]

\* currentProject.files.map((f) => f.name === fileName ? { ...f, content } : f)
MapContent(files, fileName, content) ==
  [ i \in DOMAIN files |->
      IF files[i].name = fileName
        THEN [files[i] EXCEPT !.content = content]
        ELSE files[i] ]

(***************************************************************************)
(* Save-as name derivation.  A path is a sequence of tokens: the           *)
(* separators "/" and "\\", the extension ".codecell", and plain segments  *)
(* that hold neither.                                                      *)
(***************************************************************************)
RECURSIVE Concat(_)
Concat(toks) == IF toks = << >> THEN "" ELSE Head(toks) \o Concat(Tail(toks))

IsSeparator(tok) == tok \in {"/", "\\"}

\* path.split(/[/\\]/).pop(): the tokens after the last separator.
LastComponent(path) ==
  LET seps == { i \in DOMAIN path : IsSeparator(path[i]) }
      from == IF seps = {} THEN 1
              ELSE (CHOOSE i \in seps : \A j \in seps : j <= i) + 1
  IN SubSeq(path, from, Len(path))

\* fileName.replace(/\.codecell$/, ""): drops one trailing ".codecell".
StripExtension(toks) ==
  IF toks # << >> /\ toks[Len(toks)] = ".codecell"
    THEN SubSeq(toks, 1, Len(toks) - 1)
    ELSE toks

\* const fileName = path.split(/[/\\]/).pop() || currentProject.name;
\* const projectName = fileName.replace(/\.codecell$/, "");
ProjectNameFor(path, currentName) ==
  LET fileName == LastComponent(path)
  IN IF fileName = << >> THEN currentName ELSE Concat(StripExtension(fileName))

(***************************************************************************)
(* State.                                                                  *)
(***************************************************************************)
VARIABLES
  \* ---- project store (zustand) ----
  currentProject,       \* Project | null
  isDirty,
  lastSavedAt,
  cleanFilesSnapshot,
  \* ---- collaborators of the store ----
  disk,                 \* storage: path -> saved project (or NoProject)
  now,                  \* the wall clock read by new Date()
  nextId,               \* ids crypto.randomUUID() has handed out so far
  \* ---- pending asynchronous store calls ----
  svPc, svProject,      \* saveProject: position, the project it captured
  sasPc, sasProject,    \* saveProjectAs: position, captured / updated project
  sasViaSave,           \* saveProjectAs was entered through saveProject
  opPc, opPath,         \* openProject: position, the path picked
  lastReturn,           \* the value an asynchronous store call has just returned
  invoked,              \* the collaborator calls the last step issued
  \* ---- history of the pending saveProjectAs call ----
  sasEntry,             \* the store as it was when the call was made
  sasQuiet,             \* no other operation changed the store since
  opEntry,              \* the store as it was when openProject was called
  opQuiet,              \* no other operation changed the store since
  recentProjects,       \* store: the launcher's recent list
  recentArg,            \* the argument of the last addRecentProject call
  recentFresh,          \* ids handed to addRecentProject so far
  recentReadds,         \* calls made for ids already handed
  built,                \* the project buildProject last returned
  heap,                 \* file objects by reference
  quickFiles,           \* store: the files arrays of the custom quick templates
  templateStore,        \* storage: the custom templates' files, serialised
  projectFiles,         \* the projects made from custom templates, files by reference
  edits,                \* updateFile calls made on them
  saves,                \* saveAsTemplate calls made
  currentIdx,           \* which of them is the store's currentProject
  timers,               \* useAutosave: the window's live interval timers
  autosaveTimer,        \* the timer the last effect's cleanup will clear
  effectDeps,           \* the dependencies the effect last ran with
  ticked,               \* the step just taken was a timer tick
  \* ---- CompiledEditor, per window id ----
  loaded,               \* what useProjectLoader has put in the window's store
  isRunning,            \* useState(false)
  result,               \* useState<ExecutionResult | null>(null)
  streamingOutput,      \* useState({ stdout: "", stderr: "" })
  seen,                 \* the state the handlers in use were rendered with
  runRejected,          \* rejections of invoke(config.executor) not yet caught
  stopReplies,          \* answers to invoke("stop_execution") not yet handled
  listenerScope,        \* which events the window's listeners receive
  mounted,              \* the editor windows that are open
  \* ---- executor and event channel ----
  runCalls,             \* run calls the executor has not answered yet
  stopCalls,            \* stop calls the executor has not answered yet
  procs,                \* the runs the executor has going, per window id
  chan,                 \* events addressed to the window, oldest first
  \* ---- history of the window's runs ----
  runSeq,               \* run requests the window has issued
  ended,                \* how the window's last run ended, if it has
  \* ---- useUnsavedChanges and the editor window ----
  ucState,              \* useState({ showDialog, pendingClose })
  ucDeps,               \* the isDirty the effect last ran with
  closeListeners,       \* the close-requested listeners the effect has made
  closeRequests,        \* close requests not yet handed to the listeners
  windowOpen,           \* the window has not closed
  hsPc                  \* handleSave: idle, or awaiting saveProject()

storeVars == << currentProject, isDirty, lastSavedAt, cleanFilesSnapshot >>
svVars == << svPc, svProject >>
sasVars == << sasPc, sasProject, sasViaSave >>
opVars == << opPc, opPath >>
historyVars == << sasEntry, sasQuiet, opEntry, opQuiet >>
recentVars == << recentProjects, recentArg, recentFresh, recentReadds >>
heapVars == << heap, quickFiles, templateStore, projectFiles, edits, saves,
              currentIdx >>
builderVars == << built, heapVars >>
launcherVars == << recentVars, builderVars >>
storeSide == << storeVars, disk, now, nextId,
                svVars, sasVars, opVars, lastReturn, invoked, historyVars,
                launcherVars >>
editorVars == << loaded, isRunning, result, streamingOutput, seen,
                 runRejected, stopReplies, listenerScope, mounted >>
executorVars == << runCalls, stopCalls, procs, chan >>
runHistoryVars == << runSeq, ended >>
autosaveVars == << timers, autosaveTimer, effectDeps, ticked >>
closeVars == << ucState, ucDeps, closeListeners, closeRequests, windowOpen, hsPc >>
execSide == << editorVars, executorVars, runHistoryVars, autosaveVars,
               closeVars >>
vars == << storeSide, execSide >>

NoReturn == [op |-> "none", value |-> FALSE, cause |-> "none"]
Return(op, value, cause) == [op |-> op, value |-> value, cause |-> cause]
\* What a step shows outside the store: the value returned, the calls issued.
Emit(returned, calls) == lastReturn' = returned /\ invoked' = calls
\* A collaborator call: the command (or dialog) and its arguments.
Call(name, args) == [name |-> name, args |-> args]
CallNames(calls) == { c.name : c \in calls }
\* invoke("add_recent_project", { project: { id, name, template, path, updatedAt } })
AddRecentCall(project, path) ==
  Call("add_recent_project",
       << project.id, project.name, project.template, path, project.updatedAt >>)
\* RecentProject: its id and path (name, template and updatedAt play no part
\* in the list's upkeep).
RecentProject(id, path) == [id |-> id, path |-> path]
NoRecent == [null |-> TRUE]
RecentLimit == 10

\* useAutosave: no timer; the effect that has not run yet, and the one whose
\* component is gone.
NoTimer == 0
NotRun == [run |-> FALSE]
Unmounted == [unmounted |-> TRUE]

\* The files of the custom template the store has loaded, as objects.
CustomFiles ==
  << File("main.py", "python", "x"), File("util.py", "python", "u") >>

NotReturning == Emit(NoReturn, {})

\* useUnsavedChanges: the dialog state, and a listener made by
\* onCloseRequested with the isDirty its closure holds.  A listener is
\* "pending" until the promise of onCloseRequested resolves, then "current"
\* (it is registered and unlistenFn is set); one whose effect was cleaned up
\* while pending is "abandoned", and "leaked" once registered: no cleanup
\* removes it.
DialogClosed == [showDialog |-> FALSE, pendingClose |-> FALSE]
DialogOpen == [showDialog |-> TRUE, pendingClose |-> TRUE]
CloseListener(dirty, phase) == [isDirty |-> dirty, phase |-> phase]

\* No asynchronous store call is in flight.
NoCallPending == svPc = "idle" /\ sasPc = "idle" /\ opPc = "idle"

\* A project file left on storage by an earlier session.
OldProject ==
  [ id |-> 0, name |-> "b", template |-> "python",
    files |-> << File("main.py", "python", "x") >>,
    updatedAt |-> 0, savedPath |-> PathB ]

\* QuickTemplates: the built-in ones carry no files, a custom one its own.
BuiltIn(type) == [type |-> type, isBuiltIn |-> TRUE, files |-> << >>]
CustomTemplate ==
  [ type |-> "python", isBuiltIn |-> FALSE,
    files |-> << File("main.py", "python", "x") >> ]
QuickTemplates == { BuiltIn(t) : t \in StoreTemplates } \cup { CustomTemplate }

\* The file names an editor may name in updateFile (one of them in no project).
EditableNames ==
  UNION { FileNames(generateDefaultFiles(t)) : t \in StoreTemplates } \cup {"ghost.txt"}
ContentsFor(n) == EditContents \cup { Starter(n) }

StoreTuple == << currentProject, isDirty, cleanFilesSnapshot >>
NoEntry == << >>

(***************************************************************************)
(* The execution coordinator's values.                                     *)
(***************************************************************************)
ProjectIds == {"p1", "p2"}
windowId(projectId) == "editor-" \o projectId
Windows == {windowId(p) : p \in ProjectIds}

Streams == {"stdout", "stderr"}
Lines == {"a"}
EmptyOutput == [stdout |-> "", stderr |-> ""]
ExecutionResult(out, err, code, ms) ==
  [stdout |-> out, stderr |-> err, exitCode |-> code, durationMs |-> ms]
\* The terminal payloads the executor sends.
ExecutionResults ==
  { ExecutionResult("ab", "", 0, 5), ExecutionResult("", "boom", 1, 5) }
\* What the executor rejects a run with: a message string.
Errors == { [type |-> "string", value |-> "Error: Python is not installed"] }
\* String(error)
StringOf(thrown) ==
  IF thrown.type = "string" THEN thrown.value ELSE "Error: " \o thrown.value

StateChanged(running) == [name |-> "execution:state-changed", payload |-> running]
Output(line, stream) ==
  [name |-> "execution:output", payload |-> [line |-> line, stream |-> stream]]
Completed(payload) == [name |-> "execution:completed", payload |-> payload]

\* The executor has no run going for a window id.
NoRun == [phase |-> "none", outputs |-> 0]

\* What a window's store holds: no project, a project without files, or a
\* project whose first file has code.
Loadable == {"no-files", "code"}

InitEditors ==
  /\ loaded = [w \in Windows |-> "none"]
  /\ isRunning = [w \in Windows |-> FALSE]
  /\ result = [w \in Windows |-> NoResult]
  /\ streamingOutput = [w \in Windows |-> EmptyOutput]
  /\ seen = [w \in Windows |-> [isRunning |-> FALSE, currentProject |-> "none"]]
  /\ runRejected = [w \in Windows |-> << >>]
  /\ stopReplies = [w \in Windows |-> << >>]
  /\ runCalls = [w \in Windows |-> 0]
  /\ stopCalls = [w \in Windows |-> 0]
  /\ procs = [w \in Windows |-> NoRun]
  /\ chan = [w \in Windows |-> << >>]
  /\ runSeq = [w \in Windows |-> 0]
  /\ timers = {} /\ autosaveTimer = NoTimer
  /\ effectDeps = NotRun /\ ticked = FALSE
  /\ ended = [w \in Windows |-> "none"]
  /\ ucState = DialogClosed
  /\ ucDeps = FALSE
  /\ closeListeners = { CloseListener(FALSE, "current") }
  /\ closeRequests = << >>
  /\ windowOpen = TRUE
  /\ hsPc = "idle"

InitProjectStore ==
  /\ currentProject = NoProject
  /\ isDirty = FALSE
  /\ lastSavedAt = NoTime
  /\ cleanFilesSnapshot = EmptySnapshot
  /\ disk = [p \in Paths |-> IF p = PathB THEN OldProject ELSE NoProject]
  /\ now = 0
  /\ nextId = 0
  /\ svPc = "idle" /\ svProject = NoProject
  /\ sasPc = "idle" /\ sasProject = NoProject /\ sasViaSave = FALSE
  /\ opPc = "idle" /\ opPath = NoPath
  /\ lastReturn = NoReturn
  /\ invoked = {}
  /\ sasEntry = NoEntry /\ sasQuiet = FALSE
  /\ opEntry = NoEntry /\ opQuiet = FALSE
  /\ recentProjects = << >> /\ recentArg = NoRecent
  /\ recentFresh = 0 /\ recentReadds = 0
  /\ built = NoProject
  /\ heap = CustomFiles
  /\ quickFiles = << [i \in DOMAIN CustomFiles |-> i] >>
  /\ templateStore = << CustomFiles >>
  /\ projectFiles = << >>
  /\ edits = 0 /\ saves = 0
  /\ currentIdx = 0

InitStore ==
  /\ InitProjectStore
  /\ InitEditors
  /\ listenerScope = "window"
  /\ mounted = {windowId("p1")}

(***************************************************************************)
(* Synchronous store actions.                                              *)
(***************************************************************************)
\* set({ currentProject: project, isDirty: false, cleanFilesSnapshot: snapshot })
SetLoaded(project) ==
  /\ currentProject' = project
  /\ isDirty' = FALSE
  /\ cleanFilesSnapshot' =
       IF project # NoProject THEN SnapshotOf(project.files) ELSE EmptySnapshot

setCurrentProject(project) ==
  /\ SetLoaded(project)
  /\ UNCHANGED << lastSavedAt, disk, now, nextId,
                  svVars, sasVars, opVars >> /\ NotReturning

\* updateFile judging the project by the edited file alone.
updateFileChangedOnly(fileName, content) ==
  IF currentProject = NoProject
    THEN UNCHANGED << storeVars, disk, now, nextId,
                      svVars, sasVars, opVars >> /\ NotReturning
    ELSE LET updatedFiles == MapContent(currentProject.files, fileName, content)
         IN /\ currentProject' =
                 [currentProject EXCEPT !.files = updatedFiles, !.updatedAt = now]
            /\ isDirty' = (SnapGet(cleanFilesSnapshot, fileName) # content)
            /\ UNCHANGED << lastSavedAt, cleanFilesSnapshot, disk,
                            now, nextId, svVars, sasVars, opVars >> /\ NotReturning

updateFile(fileName, content) ==
  IF currentProject = NoProject
    THEN UNCHANGED << storeVars, disk, now, nextId,
                      svVars, sasVars, opVars >> /\ NotReturning
    ELSE LET updatedFiles == MapContent(currentProject.files, fileName, content)
         IN /\ currentProject' =
                 [currentProject EXCEPT !.files = updatedFiles, !.updatedAt = now]
            /\ isDirty' = SomeFileDiffers(updatedFiles, cleanFilesSnapshot)
            /\ UNCHANGED << lastSavedAt, cleanFilesSnapshot, disk,
                            now, nextId, svVars, sasVars, opVars >> /\ NotReturning

\* The store part of markClean: it reads the project the store holds when it
\* runs (get()), which a set() made just before has already replaced.
MarkCleanState ==
  /\ isDirty' = FALSE
  /\ lastSavedAt' = now
  /\ cleanFilesSnapshot' =
       IF currentProject' # NoProject
         THEN SnapshotOf(currentProject'.files) ELSE EmptySnapshot

\* markClean that rebuilds the snapshot only for a project marked dirty.
markCleanWhenDirty ==
  /\ currentProject' = currentProject
  /\ isDirty' = FALSE
  /\ lastSavedAt' = now
  /\ cleanFilesSnapshot' =
       IF isDirty
         THEN IF currentProject # NoProject
                THEN SnapshotOf(currentProject.files) ELSE EmptySnapshot
         ELSE cleanFilesSnapshot
  /\ UNCHANGED << disk, now, nextId,
                  svVars, sasVars, opVars >> /\ NotReturning

markClean ==
  /\ currentProject' = currentProject
  /\ MarkCleanState
  /\ UNCHANGED << disk, now, nextId,
                  svVars, sasVars, opVars >> /\ NotReturning

\* createProject: set({ currentProject: project }) and nothing else.
createProject(template) ==
  /\ nextId < MaxProjects
  /\ nextId' = nextId + 1
  /\ currentProject' = buildProject(template, nextId + 1, now)
  /\ UNCHANGED << isDirty, lastSavedAt, cleanFilesSnapshot, disk,
                  now, svVars, sasVars, opVars >> /\ NotReturning

createProjectFromTemplate(template) ==
  /\ nextId < MaxProjects
  /\ nextId' = nextId + 1
  /\ LET files == IF Len(template.files) > 0
                    THEN template.files      \* template.files.map((f) => ({ ...f }))
                    ELSE generateDefaultFiles(template.type)
         project == [ id |-> nextId + 1, name |-> "Untitled",
                      template |-> template.type, files |-> files,
                      updatedAt |-> now, savedPath |-> NoPath ]
     IN /\ currentProject' = project
        /\ isDirty' = FALSE
        /\ cleanFilesSnapshot' = SnapshotOf(files)
  /\ UNCHANGED << lastSavedAt, disk, now,
                  svVars, sasVars, opVars >> /\ NotReturning

\* useProjectLoader: setCurrentProject(await invoke("load_temp_project")), the
\* project being one the launcher built or one read from storage.
LoadTempBuilt(template) ==
  /\ nextId < MaxProjects
  /\ nextId' = nextId + 1
  /\ SetLoaded(buildProject(template, nextId + 1, now))
  /\ UNCHANGED << lastSavedAt, disk, now,
                  svVars, sasVars, opVars >> /\ NotReturning

LoadTempSaved(path) ==
  /\ disk[path] # NoProject
  /\ setCurrentProject([disk[path] EXCEPT !.savedPath = path])

(***************************************************************************)
(* Persistence facade: the asynchronous calls, one action per stretch of   *)
(* code between two awaits.                                                *)
(***************************************************************************)
\* saveProjectAs up to `await save(...)`: the file picker is open.
SasEnter(viaSave) ==
  /\ NoCallPending
  /\ currentProject # NoProject
  /\ sasPc' = "picking"
  /\ sasProject' = currentProject
  /\ sasViaSave' = viaSave
  /\ Emit(NoReturn, {Call("dialog.save", << >>)})
  /\ UNCHANGED << storeVars, disk, now, nextId, svVars, opVars >>

saveProjectAsCall ==
  \/ /\ NoCallPending
     /\ currentProject = NoProject
     /\ Emit(Return("saveProjectAs", FALSE, "no-project"), {})
     /\ UNCHANGED << storeVars, disk, now, nextId, svVars, sasVars, opVars >>
  \/ SasEnter(FALSE)

\* saveProject up to its first await.
saveProjectCall ==
  \/ /\ NoCallPending
     /\ currentProject = NoProject
     /\ Emit(Return("saveProject", FALSE, "no-project"), {})
     /\ UNCHANGED << storeVars, disk, now, nextId, svVars, sasVars, opVars >>
  \/ /\ currentProject # NoProject
     /\ currentProject.savedPath = NoPath
     /\ SasEnter(TRUE)                      \* return saveProjectAs()
  \/ /\ NoCallPending
     /\ currentProject # NoProject
     /\ currentProject.savedPath # NoPath
     /\ svPc' = "writing"
     /\ svProject' = currentProject
     /\ Emit(NoReturn, {Call("save_project_to_path",
                            << currentProject, currentProject.savedPath >>)})
     /\ UNCHANGED << storeVars, disk, now, nextId, sasVars, opVars >>

\* saveProjectWritten with the catch branch marking the project clean as well.
saveProjectWrittenAlwaysClean(ok) ==
  /\ svPc = "writing"
  /\ svPc' = "idle"
  /\ svProject' = NoProject
  /\ IF ok
       THEN /\ disk' = [disk EXCEPT ![svProject.savedPath] = svProject]
            /\ Emit(Return("saveProject", TRUE, "saved"), {})
       ELSE /\ Emit(Return("saveProject", FALSE, "write-failed"), {})
            /\ UNCHANGED disk
  /\ currentProject' = currentProject
  /\ MarkCleanState
  /\ UNCHANGED << now, nextId, sasVars, opVars >>

\* save_project_to_path answered: markClean() and true, or the catch and false.
saveProjectWritten(ok) ==
  /\ svPc = "writing"
  /\ svPc' = "idle"
  /\ svProject' = NoProject
  /\ IF ok
       THEN /\ disk' = [disk EXCEPT ![svProject.savedPath] = svProject]
            /\ currentProject' = currentProject
            /\ MarkCleanState
            /\ Emit(Return("saveProject", TRUE, "saved"), {})
       ELSE /\ Emit(Return("saveProject", FALSE, "write-failed"), {})
            /\ UNCHANGED << storeVars, disk >>
  /\ UNCHANGED << now, nextId, sasVars, opVars >>

SasOp == IF sasViaSave THEN "saveProject" ELSE "saveProjectAs"

SasReturn(value, cause) ==
  /\ sasPc' = "idle"
  /\ sasProject' = NoProject
  /\ sasViaSave' = FALSE
  /\ Emit(Return(SasOp, value, cause), {})

\* saveProjectAsPicked with a dismissed picker marking the project clean.
saveProjectAsPickedCancelCleans(path) ==
  /\ sasPc = "picking"
  /\ IF path = NoPath
       THEN /\ SasReturn(FALSE, "cancelled")
            /\ currentProject' = currentProject
            /\ MarkCleanState
       ELSE /\ sasPc' = "writing"
            /\ sasProject' =
                 [sasProject EXCEPT !.name = ProjectNameFor(path, sasProject.name),
                                    !.savedPath = path,
                                    !.updatedAt = now]
            /\ Emit(NoReturn, {Call("save_project_to_path", << sasProject', path >>)})
            /\ UNCHANGED << sasViaSave, storeVars >>
  /\ UNCHANGED << disk, now, nextId, svVars, opVars >>

\* The picker answered: null (dismissed) or a path; with a path the project is
\* renamed from the project captured at the call and the write is issued.
saveProjectAsPicked(path) ==
  /\ sasPc = "picking"
  /\ IF path = NoPath
       THEN SasReturn(FALSE, "cancelled")
       ELSE /\ sasPc' = "writing"
            /\ sasProject' =
                 [sasProject EXCEPT !.name = ProjectNameFor(path, sasProject.name),
                                    !.savedPath = path,
                                    !.updatedAt = now]
            /\ Emit(NoReturn, {Call("save_project_to_path", << sasProject', path >>)})
            /\ UNCHANGED sasViaSave
  /\ UNCHANGED << storeVars, disk, now, nextId, svVars, opVars >>

\* saveProjectAsWritten without markClean() after the set().
saveProjectAsWrittenNoMarkClean(ok) ==
  /\ sasPc = "writing"
  /\ IF ok
       THEN /\ disk' = [disk EXCEPT ![sasProject.savedPath] = sasProject]
            /\ currentProject' = sasProject
            /\ sasPc' = "recent"
            /\ Emit(NoReturn, {AddRecentCall(sasProject, sasProject.savedPath)})
            /\ UNCHANGED << isDirty, lastSavedAt, cleanFilesSnapshot,
                            sasProject, sasViaSave >>
       ELSE /\ SasReturn(FALSE, "write-failed")
            /\ UNCHANGED << storeVars, disk >>
  /\ UNCHANGED << now, nextId, svVars, opVars >>

\* save_project_to_path answered: set({ currentProject: updatedProject }),
\* markClean() and the add_recent_project call, or the catch.
saveProjectAsWritten(ok) ==
  /\ sasPc = "writing"
  /\ IF ok
       THEN /\ disk' = [disk EXCEPT ![sasProject.savedPath] = sasProject]
            /\ currentProject' = sasProject
            /\ MarkCleanState
            /\ sasPc' = "recent"
            /\ Emit(NoReturn, {AddRecentCall(sasProject, sasProject.savedPath)})
            /\ UNCHANGED << sasProject, sasViaSave >>
       ELSE /\ SasReturn(FALSE, "write-failed")
            /\ UNCHANGED << storeVars, disk >>
  /\ UNCHANGED << now, nextId, svVars, opVars >>

\* add_recent_project answered.
saveProjectAsRecent(ok) ==
  /\ sasPc = "recent"
  /\ IF ok
       THEN SasReturn(TRUE, "saved")
       ELSE SasReturn(FALSE, "recent-failed")
  /\ UNCHANGED << storeVars, disk, now, nextId, svVars, opVars >>

\* openProject up to `await open(...)`.
openProjectCall ==
  /\ NoCallPending
  /\ opPc' = "picking"
  /\ Emit(NoReturn, {Call("dialog.open", << >>)})
  /\ UNCHANGED << storeVars, disk, now, nextId, svVars, sasVars, opPath >>

openProjectPicked(path) ==
  /\ opPc = "picking"
  /\ IF path = NoPath
       THEN /\ opPc' = "idle"
            /\ Emit(Return("openProject", FALSE, "cancelled"), {})
            /\ UNCHANGED opPath
       ELSE /\ opPc' = "loading"
            /\ opPath' = path
            /\ Emit(NoReturn, {Call("load_project_from_path", << path >>)})
  /\ UNCHANGED << storeVars, disk, now, nextId, svVars, sasVars >>

\* load_project_from_path answered: the project (its savedPath forced to the
\* path, the snapshot rebuilt) and the add_recent_project call, or the catch.
openProjectLoaded(ok) ==
  /\ opPc = "loading"
  /\ IF ok /\ disk[opPath] # NoProject
       THEN /\ SetLoaded([disk[opPath] EXCEPT !.savedPath = opPath])
            /\ opPc' = "recent"
            /\ Emit(NoReturn, {AddRecentCall(disk[opPath], opPath)})
            /\ UNCHANGED << lastSavedAt, opPath >>
       ELSE /\ opPc' = "idle"
            /\ opPath' = NoPath
            /\ Emit(Return("openProject", FALSE, "load-failed"), {})
            /\ UNCHANGED storeVars
  /\ UNCHANGED << disk, now, nextId, svVars, sasVars >>

openProjectRecent(ok) ==
  /\ opPc = "recent"
  /\ opPc' = "idle"
  /\ opPath' = NoPath
  /\ IF ok
       THEN Emit(Return("openProject", TRUE, "opened"), {})
       ELSE Emit(Return("openProject", FALSE, "recent-failed"), {})
  /\ UNCHANGED << storeVars, disk, now, nextId, svVars, sasVars >>

(***************************************************************************)
(* History of the saveProjectAs call: the store as it was when the call    *)
(* was made, kept for as long as no other operation changes the store.     *)
(***************************************************************************)
SasHistory ==
  IF sasPc = "idle" /\ sasPc' # "idle"
    THEN sasEntry' = StoreTuple /\ sasQuiet' = TRUE
    ELSE IF sasPc' # sasPc
      THEN UNCHANGED << sasEntry, sasQuiet >>
      ELSE LET quiet == /\ sasQuiet
                        /\ currentProject' = currentProject
                        /\ isDirty' = isDirty
                        /\ cleanFilesSnapshot' = cleanFilesSnapshot
           IN /\ sasQuiet' = quiet
              /\ sasEntry' = IF quiet THEN sasEntry ELSE NoEntry

\* The same history for the openProject call.
OpHistory ==
  IF opPc = "idle" /\ opPc' # "idle"
    THEN opEntry' = StoreTuple /\ opQuiet' = TRUE
    ELSE IF opPc' # opPc
      THEN UNCHANGED << opEntry, opQuiet >>
      ELSE LET quiet == /\ opQuiet
                        /\ currentProject' = currentProject
                        /\ isDirty' = isDirty
                        /\ cleanFilesSnapshot' = cleanFilesSnapshot
           IN /\ opQuiet' = quiet
              /\ opEntry' = IF quiet THEN opEntry ELSE NoEntry

\* Every step of the store keeps the calls' history and leaves the editors alone.
StoreStep ==
  SasHistory /\ OpHistory /\ UNCHANGED launcherVars /\ UNCHANGED execSide

NextStore ==
  \/ \E t \in StoreTemplates : createProject(t) /\ StoreStep
  \/ \E q \in QuickTemplates : createProjectFromTemplate(q) /\ StoreStep
  \/ setCurrentProject(NoProject) /\ StoreStep
  \/ \E t \in StoreTemplates : LoadTempBuilt(t) /\ StoreStep
  \/ \E p \in Paths : LoadTempSaved(p) /\ StoreStep
  \/ \E n \in EditableNames : \E c \in ContentsFor(n) : updateFile(n, c) /\ StoreStep
  \/ markClean /\ StoreStep
  \/ saveProjectCall /\ StoreStep
  \/ \E ok \in BOOLEAN : saveProjectWritten(ok) /\ StoreStep
  \/ saveProjectAsCall /\ StoreStep
  \/ \E p \in Paths \cup {NoPath} : saveProjectAsPicked(p) /\ StoreStep
  \/ \E ok \in BOOLEAN : saveProjectAsWritten(ok) /\ StoreStep
  \/ \E ok \in BOOLEAN : saveProjectAsRecent(ok) /\ StoreStep
  \/ openProjectCall /\ StoreStep
  \/ \E p \in Paths \cup {NoPath} : openProjectPicked(p) /\ StoreStep
  \/ \E ok \in BOOLEAN : openProjectLoaded(ok) /\ StoreStep
  \/ \E ok \in BOOLEAN : openProjectRecent(ok) /\ StoreStep

SpecStore == InitStore /\ [][NextStore]_vars

(***************************************************************************)
(* The recent list of the launcher.                                        *)
(***************************************************************************)
\* list.filter((p) => p.id !== id)
RECURSIVE FilterOtherId(_, _)
FilterOtherId(list, id) ==
  IF list = << >> THEN << >>
  ELSE IF Head(list).id # id
    THEN << Head(list) >> \o FilterOtherId(Tail(list), id)
    ELSE FilterOtherId(Tail(list), id)

\* array.slice(0, n)
Slice0(list, n) == SubSeq(list, 1, IF Len(list) < n THEN Len(list) ELSE n)

RecentStep(project) ==
  /\ recentArg' = project
  /\ IF \E i \in 1..recentFresh : project.id = i
       THEN /\ recentReadds < MaxReadds
            /\ recentReadds' = recentReadds + 1
            /\ UNCHANGED recentFresh
       ELSE /\ recentFresh < MaxFresh
            /\ project.id = recentFresh + 1
            /\ recentFresh' = recentFresh + 1
            /\ UNCHANGED recentReadds
  /\ UNCHANGED << storeVars, disk, now, nextId, svVars, sasVars, opVars,
                  lastReturn, invoked, historyVars, builderVars, execSide >>

\* addRecentProject that keeps the earlier entry of the same id.
addRecentProjectNoFilter(project) ==
  /\ recentProjects' = Slice0(<< project >> \o recentProjects, RecentLimit)
  /\ RecentStep(project)

addRecentProject(project) ==
  /\ recentProjects' =
       Slice0(<< project >> \o FilterOtherId(recentProjects, project.id),
              RecentLimit)
  /\ RecentStep(project)

\* A project not yet in the list is added under the first path; a project
\* added before comes back under the second.
NextRecent ==
  \/ addRecentProject(RecentProject(recentFresh + 1, PathA))
  \/ \E id \in 1..recentFresh : addRecentProject(RecentProject(id, PathB))

SpecRecent == InitStore /\ [][NextRecent]_vars

\* C13 - recent list: after every addRecentProject call the list has no two
\* entries of one id and at most 10 entries, its first entry is the project
\* just added, and the entries behind it are earlier entries, each next one
\* taken from further down the earlier list.
RecentCalled == recentFresh' # recentFresh \/ recentReadds' # recentReadds
RecentListDiscipline ==
  [][ RecentCalled =>
        LET old == recentProjects
            new == recentProjects'
        IN /\ \A i, j \in 1..Len(new) : new[i].id = new[j].id => i = j
           /\ Len(new) <= 10
           /\ Len(new) >= 1 /\ new[1] = recentArg'
           /\ \A i \in 2..(Len(new) - 1) :
                \E a, b \in 1..Len(old) :
                  a < b /\ old[a] = new[i] /\ old[b] = new[i + 1]
           /\ Len(new) >= 2 => \E a \in 1..Len(old) : old[a] = new[2]
    ]_vars

\* Ten entries are listed, an eleventh project has pushed the oldest out and
\* a project from the middle of the list has been added again.
RecentListFull ==
  /\ Len(recentProjects) = 10
  /\ recentFresh = 11
  /\ recentReadds >= 1
  /\ recentProjects[1].path = PathB
  /\ \E i \in 2..10 : recentProjects[i].id > recentProjects[1].id
  /\ \E i \in 2..10 : recentProjects[i].id < recentProjects[1].id

(***************************************************************************)
(* Properties of the project store.                                        *)
(***************************************************************************)
StoreFields == << currentProject, isDirty, cleanFilesSnapshot >>

\* C1 - dirty invariant: isDirty is true exactly when there is a current
\* project with a file whose content differs from cleanFilesSnapshot[name];
\* with no current project isDirty is false.
DirtyInvariant ==
  isDirty <=> /\ currentProject # NoProject
              /\ SomeFileDiffers(currentProject.files, cleanFilesSnapshot)

\* C8 - saveProject: a failed write returns false and leaves currentProject,
\* isDirty, cleanFilesSnapshot and lastSavedAt as they were, the store is
\* marked clean only by the step that has written the file; with savedPath
\* null the call is the saveProjectAs call; with no project (and nothing in
\* flight) no save collaborator is called and false is returned.
SaveProjectAnswered == svPc = "writing" /\ svPc' = "idle"
SaveProjectFailureIsolated ==
  [][ /\ SaveProjectAnswered =>
           \/ /\ lastReturn' = Return("saveProject", TRUE, "saved")
              /\ disk'[svProject.savedPath] = svProject
              /\ ~isDirty'
              /\ lastSavedAt' = now
              /\ currentProject' = currentProject
           \/ /\ lastReturn' = Return("saveProject", FALSE, "write-failed")
              /\ UNCHANGED << storeVars, disk >>
      /\ (svPc = "idle" /\ svPc' = "writing") =>
           /\ currentProject # NoProject
           /\ currentProject.savedPath # NoPath
           /\ svProject' = currentProject
           /\ CallNames(invoked') = {"save_project_to_path"}
           /\ UNCHANGED << storeVars, disk >>
      /\ (sasViaSave' /\ ~sasViaSave) =>
           /\ currentProject # NoProject
           /\ currentProject.savedPath = NoPath
           /\ sasPc' = "picking"
           /\ sasProject' = currentProject
           /\ CallNames(invoked') = {"dialog.save"}
           /\ UNCHANGED << storeVars, disk >>
      /\ (currentProject = NoProject /\ NoCallPending) =>
           /\ CallNames(invoked') \subseteq {"dialog.open"}
           /\ svPc' = "idle" /\ sasPc' = "idle"
      /\ lastReturn' = Return("saveProject", FALSE, "no-project") =>
           /\ currentProject = NoProject
           /\ invoked' = {}
           /\ UNCHANGED << storeVars, disk >>
    ]_vars

\* A dirty saved project whose write has just failed.
SaveProjectFailureSeen ==
  /\ lastReturn = Return("saveProject", FALSE, "write-failed")
  /\ currentProject # NoProject
  /\ currentProject.savedPath # NoPath
  /\ isDirty

\* C9 - no partial commit in saveProjectAs: when saveProjectAs returns false
\* because the storage write or the recent-list update failed (and no other
\* operation touched the store meanwhile), currentProject.savedPath,
\* currentProject.name, isDirty and cleanFilesSnapshot are as at the call.
SaveAsFailedOnCollaborator ==
  /\ lastReturn # NoReturn
  /\ lastReturn.op \in {"saveProjectAs", "saveProject"}
  /\ lastReturn.cause \in {"write-failed", "recent-failed"}
  /\ sasQuiet
  /\ sasEntry # NoEntry
SaveAsNoPartialCommit ==
  SaveAsFailedOnCollaborator =>
    /\ currentProject # NoProject
    /\ currentProject.savedPath = sasEntry[1].savedPath
    /\ currentProject.name = sasEntry[1].name
    /\ isDirty = sasEntry[2]
    /\ cleanFilesSnapshot = sasEntry[3]

\* C10 - cancelled save-as: a dismissed picker makes saveProjectAs return
\* false; neither the call nor the dismissal writes to storage or updates the
\* recent list, and currentProject, isDirty and cleanFilesSnapshot stay as
\* they are.
SaveAsCancelled == sasPc = "picking" /\ sasPc' = "idle"
SaveAsCalled == sasPc = "idle" /\ sasPc' = "picking"
CancelledSaveAsIsNoOp ==
  [][ /\ SaveAsCalled =>
           /\ CallNames(invoked') = {"dialog.save"}
           /\ UNCHANGED << StoreFields, lastSavedAt, disk >>
      /\ SaveAsCancelled =>
           /\ lastReturn' = Return(SasOp, FALSE, "cancelled")
           /\ invoked' = {}
           /\ UNCHANGED << StoreFields, lastSavedAt, disk >>
    ]_vars

\* Save-as of a dirty project has just been dismissed, the store as at the call.
CancelledSaveAsSeen ==
  /\ lastReturn = Return("saveProjectAs", FALSE, "cancelled")
  /\ sasQuiet
  /\ StoreTuple = sasEntry
  /\ isDirty

\* C11 - successful save-as: the write is issued for a chosen path p with the
\* project renamed to p's last component less a trailing ".codecell" and its
\* id and files kept; the step that follows the write makes that project
\* current with savedPath p, isDirty false and the snapshot equal to its
\* files, and calls add_recent_project with its id and p; when the call
\* returns true (no other operation having touched the store) this all holds.
SaveAsWriteIssued == sasPc = "picking" /\ sasPc' = "writing"
SaveAsCommitted == sasPc = "writing" /\ sasPc' = "recent"
SaveAsReturnedTrue ==
  sasPc = "recent" /\ sasPc' = "idle" /\ lastReturn'.value = TRUE
SavedAsAt(project, p, id) ==
  /\ project # NoProject
  /\ project.savedPath = p
  /\ project.name = Concat(StripExtension(LastComponent(p)))
  /\ project.id = id
SaveAsSuccess ==
  [][ /\ SaveAsWriteIssued =>
           \E p \in Paths :
             /\ SavedAsAt(sasProject', p, sasProject.id)
             /\ sasProject'.files = sasProject.files
             /\ invoked' = {Call("save_project_to_path", << sasProject', p >>)}
      /\ SaveAsCommitted =>
           /\ currentProject' = sasProject
           /\ disk'[sasProject.savedPath] = sasProject
           /\ ~isDirty'
           /\ cleanFilesSnapshot' = SnapshotOf(currentProject'.files)
           /\ \E c \in invoked' :
                /\ c.name = "add_recent_project"
                /\ c.args[1] = sasProject.id
                /\ c.args[4] = sasProject.savedPath
      /\ (SaveAsReturnedTrue /\ sasQuiet) =>
           /\ SavedAsAt(currentProject', sasProject.savedPath, sasEntry[1].id)
           /\ ~isDirty'
           /\ cleanFilesSnapshot' = SnapshotOf(currentProject'.files)
           /\ invoked' = {}
    ]_vars

\* Save-as to /tmp/note.codecell has just returned true, the store untouched
\* by anything else.
SaveAsSuccessSeen ==
  /\ lastReturn = Return("saveProjectAs", TRUE, "saved")
  /\ sasQuiet
  /\ currentProject # NoProject
  /\ currentProject.savedPath = PathA
  /\ currentProject.name = "note"
  /\ ~isDirty

\* C12 - openProject: a call that returns true leaves the project loaded from
\* the chosen path current, with that path as savedPath, isDirty false and
\* the snapshot of its files; a call that returns false (picker dismissed, or
\* a collaborator call failed) leaves currentProject, isDirty and
\* cleanFilesSnapshot as they were when it was made.
OpenReturned(value) ==
  opPc # "idle" /\ opPc' = "idle" /\ lastReturn'.value = value /\ opQuiet
OpenProjectAllOrNothing ==
  [][ /\ OpenReturned(TRUE) =>
           /\ currentProject' = [disk[opPath] EXCEPT !.savedPath = opPath]
           /\ ~isDirty'
           /\ cleanFilesSnapshot' = SnapshotOf(currentProject'.files)
      /\ OpenReturned(FALSE) => StoreTuple' = opEntry
    ]_vars

\* C16 - stale responses: when the project a saveProject or saveProjectAs
\* call captured is no longer the current one at the time the storage write
\* answers, the answer changes neither currentProject (so neither its
\* savedPath nor its name) nor isDirty nor cleanFilesSnapshot.
Replaced(captured) ==
  currentProject = NoProject \/ currentProject.id # captured.id
SaveAnswered == svPc = "writing" /\ svPc' = "idle"
SaveAsAnswered == sasPc = "writing" /\ sasPc' # "writing"
StaleResponseDiscarded ==
  [][ /\ (SaveAnswered /\ Replaced(svProject)) => UNCHANGED StoreFields
      /\ (SaveAsAnswered /\ Replaced(sasProject)) => UNCHANGED StoreFields
    ]_vars

\* C17 - snapshot reset: right after createProject, createProjectFromTemplate,
\* setCurrentProject(project), the step of openProject that installs the
\* loaded project, and the answer of a successful save or save-as, the
\* snapshot maps exactly the current project's file names to their contents
\* and isDirty is false.
ProjectInstalled ==
  \/ \E t \in StoreTemplates : createProject(t)
  \/ \E q \in QuickTemplates : createProjectFromTemplate(q)
  \/ \E t \in StoreTemplates : LoadTempBuilt(t)
  \/ \E p \in Paths : LoadTempSaved(p)
  \/ opPc = "loading" /\ opPc' = "recent"
  \/ SaveAnswered /\ lastReturn'.value = TRUE
  \/ SaveAsCommitted
SnapshotReset ==
  [][ (ProjectInstalled /\ currentProject' # NoProject) =>
        /\ cleanFilesSnapshot' = SnapshotOf(currentProject'.files)
        /\ ~isDirty'
    ]_vars

(***************************************************************************)
(* Dirty tracking over a project of several files.                         *)
(***************************************************************************)
DirtyTemplates == {"web", "python"}
DirtyNames ==
  UNION { FileNames(generateDefaultFiles(t)) : t \in DirtyTemplates }
    \cup {"ghost.txt"}
DirtyContents(n) == ContentsFor(n) \cup {"y"}

NextDirty ==
  \/ \E t \in DirtyTemplates : LoadTempBuilt(t) /\ StoreStep
  \/ \E n \in DirtyNames : \E c \in DirtyContents(n) : updateFile(n, c) /\ StoreStep
  \/ markClean /\ StoreStep

SpecDirty == InitStore /\ [][NextDirty]_vars

\* C18 - dirty round trip: in a clean state (isDirty false, the snapshot equal
\* to the files) updateFile(f, c) with c other than f's clean content makes
\* isDirty true; updateFile(f, clean content) makes it false when no other
\* file differs from the snapshot, and leaves it true while another does.
CleanState ==
  /\ currentProject # NoProject
  /\ ~isDirty
  /\ cleanFilesSnapshot = SnapshotOf(currentProject.files)
OtherFileDiffers(n) ==
  \E i \in DOMAIN currentProject.files :
    /\ currentProject.files[i].name # n
    /\ currentProject.files[i].content #
         SnapGet(cleanFilesSnapshot, currentProject.files[i].name)
DirtyRoundTrip ==
  [][ \A n \in DirtyNames : \A c \in DirtyContents(n) :
        (currentProject # NoProject /\ updateFile(n, c)) =>
          /\ (/\ CleanState
              /\ n \in FileNames(currentProject.files)
              /\ c # SnapGet(cleanFilesSnapshot, n)) => isDirty'
          /\ (c = SnapGet(cleanFilesSnapshot, n) /\ ~OtherFileDiffers(n))
               => ~isDirty'
          /\ (c = SnapGet(cleanFilesSnapshot, n) /\ OtherFileDiffers(n))
               => isDirty'
    ]_vars

\* In the web project, marked clean after an edit of one file, exactly one
\* other file differs from the snapshot and the project is dirty: the state
\* an edit of two files reaches once one of them is edited back, and from
\* which editing the last one back makes the project clean.
OneFileStillDiffers ==
  /\ currentProject # NoProject
  /\ currentProject.template = "web"
  /\ lastSavedAt # NoTime
  /\ isDirty
  /\ \E n, o \in FileNames(currentProject.files) :
       /\ n # o
       /\ SnapGet(cleanFilesSnapshot, o) = "y"
       /\ SnapshotOf(currentProject.files)[o] = "y"
       /\ SnapshotOf(currentProject.files)[n] # SnapGet(cleanFilesSnapshot, n)
       /\ ~OtherFileDiffers(n)

(***************************************************************************)
(* markClean under a running clock: every call leaves its time in          *)
(* lastSavedAt, so a second call is a step of its own.                     *)
(***************************************************************************)
\* new Date() has moved on.
Tick ==
  /\ now < MaxNow
  /\ now' = now + 1
  /\ UNCHANGED << storeVars, disk, nextId, svVars, sasVars, opVars >>
  /\ NotReturning

NextClean ==
  \/ \E t \in StoreTemplates : createProject(t) /\ StoreStep
  \/ \E t \in StoreTemplates : LoadTempBuilt(t) /\ StoreStep
  \/ setCurrentProject(NoProject) /\ StoreStep
  \/ \E n \in EditableNames : \E c \in ContentsFor(n) : updateFile(n, c) /\ StoreStep
  \/ markClean /\ StoreStep
  \/ Tick /\ StoreStep

SpecClean == InitStore /\ [][NextClean]_vars

\* C21 - markClean idempotence: a markClean call can be made in every state;
\* it leaves isDirty false and the snapshot equal to the current file
\* contents (empty with no current project), and a call made right after
\* another, with no edit in between, leaves the snapshot it found.
SnapshotIsContents(snap, project) ==
  IF project = NoProject THEN DOMAIN snap = {}
  ELSE /\ DOMAIN snap = { project.files[i].name : i \in DOMAIN project.files }
       /\ \A i \in DOMAIN project.files :
            snap[project.files[i].name] = project.files[i].content
MarkedClean ==
  /\ lastSavedAt # NoTime
  /\ ~isDirty
  /\ SnapshotIsContents(cleanFilesSnapshot, currentProject)
MarkCleanIdempotent ==
  /\ [](ENABLED (markClean /\ StoreStep))
  /\ [][ markClean =>
           /\ ~isDirty'
           /\ currentProject' = currentProject
           /\ SnapshotIsContents(cleanFilesSnapshot', currentProject)
           /\ MarkedClean => cleanFilesSnapshot' = cleanFilesSnapshot
       ]_vars

\* markClean has acted on an edited project, two clock readings after the
\* edit: the state a second call leaves, which is the one a first call at
\* that time leaves as well.
MarkedCleanLater ==
  /\ MarkedClean
  /\ currentProject # NoProject
  /\ cleanFilesSnapshot # SnapshotOf(generateDefaultFiles(currentProject.template))
  /\ lastSavedAt > currentProject.updatedAt + 1

\* C23 - updateFile without a target: with no current project, or with no
\* file of the given name in it, updateFile leaves the whole store as it was,
\* currentProject.updatedAt and isDirty included.
UpdateFileWithoutTarget(n, c) ==
  /\ updateFile(n, c)
  /\ \/ currentProject = NoProject
     \/ n \notin { currentProject.files[i].name : i \in DOMAIN currentProject.files }
UpdateFileNoTargetNoOp ==
  [][ \A n \in EditableNames : \A c \in ContentsFor(n) :
        UpdateFileWithoutTarget(n, c) =>
          UNCHANGED << currentProject, isDirty, cleanFilesSnapshot, lastSavedAt >>
    ]_vars

(***************************************************************************)
(* Edits and saves of a project of several files, saved and not yet saved. *)
(***************************************************************************)
FrameTemplates == {"web"}
FrameNames ==
  UNION { FileNames(generateDefaultFiles(t)) : t \in FrameTemplates }

NextFrame ==
  \/ \E t \in FrameTemplates : createProject(t) /\ StoreStep
  \/ \E n \in FrameNames : \E c \in ContentsFor(n) : updateFile(n, c) /\ StoreStep
  \/ markClean /\ StoreStep
  \/ saveProjectCall /\ StoreStep
  \/ \E ok \in BOOLEAN : saveProjectWritten(ok) /\ StoreStep
  \/ \E p \in {PathA, NoPath} : saveProjectAsPicked(p) /\ StoreStep
  \/ \E ok \in BOOLEAN : saveProjectAsWritten(ok) /\ StoreStep
  \/ \E ok \in BOOLEAN : saveProjectAsRecent(ok) /\ StoreStep

SpecFrame == InitStore /\ [][NextFrame]_vars

\* updateFile(n, c) on a file the project has: only that file's content (and
\* updatedAt, isDirty) may change.
UpdateFileFrame(n, c) ==
  (/\ currentProject # NoProject
   /\ n \in FileNames(currentProject.files)
   /\ updateFile(n, c)) =>
    /\ currentProject' # NoProject
    /\ currentProject'.id = currentProject.id
    /\ currentProject'.name = currentProject.name
    /\ currentProject'.template = currentProject.template
    /\ currentProject'.savedPath = currentProject.savedPath
    /\ Len(currentProject'.files) = Len(currentProject.files)
    /\ \A i \in DOMAIN currentProject.files :
         /\ currentProject'.files[i].name = currentProject.files[i].name
         /\ currentProject'.files[i].language = currentProject.files[i].language
         /\ currentProject'.files[i].content =
              IF currentProject.files[i].name = n
                THEN c ELSE currentProject.files[i].content
    /\ UNCHANGED << cleanFilesSnapshot, lastSavedAt >>
\* The project's id, name, savedPath and file contents are as they were.
IdentityAndContentsKept ==
  /\ currentProject' # NoProject
  /\ currentProject'.id = currentProject.id
  /\ currentProject'.name = currentProject.name
  /\ currentProject'.savedPath = currentProject.savedPath
  /\ currentProject'.files = currentProject.files
\* A step of markClean, or of saveProject writing to the path the project has.
MarkCleanOrDirectSave ==
  /\ currentProject # NoProject
  /\ markClean \/ saveProjectCall \/ \E ok \in BOOLEAN : saveProjectWritten(ok)
\* A step of a call of saveProject, made on whatever project.
SaveProjectStep ==
  /\ currentProject # NoProject
  /\ \/ saveProjectCall \/ \E ok \in BOOLEAN : saveProjectWritten(ok)
     \/ /\ sasViaSave
        /\ \/ \E p \in {PathA, NoPath} : saveProjectAsPicked(p)
           \/ \E ok \in BOOLEAN : saveProjectAsWritten(ok)
           \/ \E ok \in BOOLEAN : saveProjectAsRecent(ok)
\* The id of the store's project changes only when another project is
\* installed: one just built or loaded, or the one a save-as captured.
IdKept ==
  (/\ currentProject # NoProject
   /\ currentProject' # NoProject
   /\ currentProject'.id # currentProject.id) =>
    \/ nextId' # nextId
    \/ /\ sasPc = "writing"
       /\ currentProject'.id = sasProject.id
\* A save-as carries the id of the project it was called on to the end.
SaveAsKeepsId ==
  /\ (sasPc = "idle" /\ sasPc' = "picking") => sasProject'.id = currentProject.id
  /\ (sasPc = "picking" /\ sasPc' = "writing") => sasProject'.id = sasProject.id
  /\ (sasPc = "writing" /\ sasPc' = "recent") => currentProject'.id = sasProject.id

\* C24 - frame of content edits and saves, as stated: updateFile on an
\* existing file changes only that file's content, updatedAt and isDirty;
\* saveProject and markClean never change id, name, savedPath or any file
\* content; no operation on an existing project changes its id.
FrameOfEditsAndSaves ==
  [][ /\ \A n \in FrameNames : \A c \in ContentsFor(n) : UpdateFileFrame(n, c)
      /\ (currentProject # NoProject /\ markClean) => IdentityAndContentsKept
      /\ SaveProjectStep => IdentityAndContentsKept
      /\ IdKept /\ SaveAsKeepsId
    ]_vars

\* C24 - the frame that holds: the same, with saveProject taken on a project
\* that has a savedPath (on one that has none, saveProject is saveProjectAs,
\* which names the project after the file picked and sets its savedPath).
FrameOfEditsAndDirectSaves ==
  [][ /\ \A n \in FrameNames : \A c \in ContentsFor(n) : UpdateFileFrame(n, c)
      /\ MarkCleanOrDirectSave => IdentityAndContentsKept
      /\ IdKept /\ SaveAsKeepsId
    ]_vars

\* The web project, saved to a path by a save-as and edited in one file
\* since, is being written to that path by saveProject; its other files hold
\* their starter sources.
EditedAndSavingInPlace ==
  /\ currentProject # NoProject
  /\ currentProject.template = "web"
  /\ currentProject.savedPath = PathA
  /\ currentProject.name = "note"
  /\ svPc = "writing"
  /\ svProject = currentProject
  /\ isDirty
  /\ \E i, j \in DOMAIN currentProject.files :
       /\ currentProject.files[i].content = "x"
       /\ currentProject.files[j].content = Starter(currentProject.files[j].name)

(***************************************************************************)
(* The store without the unsaved-changes dialog: markClean runs only at    *)
(* the end of a save, never on its own (Discard is its one outside caller). *)
(***************************************************************************)
NextPersist ==
  \/ \E t \in StoreTemplates : createProject(t) /\ StoreStep
  \/ \E p \in Paths : LoadTempSaved(p) /\ StoreStep
  \/ \E n \in EditableNames : \E c \in ContentsFor(n) : updateFile(n, c) /\ StoreStep
  \/ saveProjectCall /\ StoreStep
  \/ \E ok \in BOOLEAN : saveProjectWritten(ok) /\ StoreStep
  \/ saveProjectAsCall /\ StoreStep
  \/ \E p \in Paths \cup {NoPath} : saveProjectAsPicked(p) /\ StoreStep
  \/ \E ok \in BOOLEAN : saveProjectAsWritten(ok) /\ StoreStep
  \/ \E ok \in BOOLEAN : saveProjectAsRecent(ok) /\ StoreStep

SpecPersist == InitStore /\ [][NextPersist]_vars

\* C25 - clean means persisted: whenever isDirty is false and savedPath is
\* non-null, the files in memory are the files most recently written to or
\* loaded from storage at savedPath, an updateFile applied while a
\* saveProject write is in flight included.
CleanMeansPersisted ==
  (/\ currentProject # NoProject
   /\ currentProject.savedPath # NoPath
   /\ ~isDirty) =>
    /\ disk[currentProject.savedPath] # NoProject
    /\ disk[currentProject.savedPath].files = currentProject.files

\* C26 - no lost edit during save-as: an updateFile applied while
\* saveProjectAs waits for the file picker or for the storage write is still
\* in currentProject.files once saveProjectAs completes; completing save-as
\* leaves the contents of the files of the project it was called on as the
\* store holds them.
SaveAsCompletes ==
  /\ sasPc = "writing"
  /\ sasPc' = "recent"
  /\ currentProject # NoProject
  /\ currentProject.id = sasProject.id
NoLostEditDuringSaveAs ==
  [][ SaveAsCompletes =>
        /\ currentProject' # NoProject
        /\ currentProject'.files = currentProject.files
    ]_vars

(***************************************************************************)
(* buildProject as a function of its inputs.                               *)
(***************************************************************************)
\* createProjectWithoutSettingCurrent: return buildProject(template, config),
\* with the id and the clock reading buildProject draws.
createProjectWithoutSettingCurrent(template, id, t) ==
  /\ built' = buildProject(template, id, t)
  /\ UNCHANGED << storeVars, disk, now, nextId, svVars, sasVars, opVars,
                  lastReturn, invoked, historyVars, recentVars, heapVars,
                  execSide >>

NextBuild ==
  \E template \in TemplateIds : \E id \in 1..MaxUuid : \E t \in 0..MaxStamp :
    createProjectWithoutSettingCurrent(template, id, t)

SpecBuild == InitStore /\ [][NextBuild]_vars

\* C19 - template fidelity: the project buildProject returns is named
\* "Untitled" and has no savedPath; for a template of the closed set its files
\* are the table's (name, language) pairs in the table's order, each with
\* non-empty content; for any other identifier it has no files.
TemplateTable ==
  [ web |-> << << "index.html", "html" >>, << "style.css", "css" >>,
               << "script.js", "javascript" >> >>,
    node |-> << << "index.js", "javascript" >> >>,
    python |-> << << "main.py", "python" >> >>,
    rust |-> << << "main.rs", "rust" >> >>,
    java |-> << << "Main.java", "java" >> >>,
    typescript |-> << << "index.ts", "typescript" >> >> ]
TemplateFidelity ==
  built # NoProject =>
    /\ built.name = "Untitled"
    /\ built.savedPath = NoPath
    /\ IF built.template \in DOMAIN TemplateTable
         THEN /\ built.files # << >>
              /\ [ i \in DOMAIN built.files |->
                     << built.files[i].name, built.files[i].language >> ]
                   = TemplateTable[built.template]
              /\ \A i \in DOMAIN built.files : built.files[i].content # ""
         ELSE built.files = << >>

\* buildProject has returned the three-file web project.
WebProjectBuilt ==
  /\ built # NoProject
  /\ built.template = "web"
  /\ Len(built.files) = 3

(***************************************************************************)
(* Projects and custom templates as objects: a files array is a sequence   *)
(* of references into the heap, and two arrays may hold the same object.   *)
(***************************************************************************)
\* { ...f, content } written into the object f itself.
SpreadInPlace(h, ref, content) ==
  [ heap |-> [h EXCEPT ![ref].content = content], ref |-> ref ]

\* { ...f, content }: a new object with f's fields and the content given
\* ({ ...f } when it is f's own).
Spread(h, ref, content) ==
  [ heap |-> Append(h, [h[ref] EXCEPT !.content = content]), ref |-> Len(h) + 1 ]

\* files.map((f) => ({ ...f }))
RECURSIVE CloneFiles(_, _)
CloneFiles(h, refs) ==
  IF refs = << >> THEN [heap |-> h, refs |-> << >>]
  ELSE LET first == Spread(h, Head(refs), h[Head(refs)].content)
           rest == CloneFiles(first.heap, Tail(refs))
       IN [heap |-> rest.heap, refs |-> << first.ref >> \o rest.refs]

\* files.map((f) => f.name === fileName ? { ...f, content } : f)
RECURSIVE UpdateFiles(_, _, _, _)
UpdateFiles(h, refs, fileName, content) ==
  IF refs = << >> THEN [heap |-> h, refs |-> << >>]
  ELSE LET first == IF h[Head(refs)].name = fileName
                      THEN Spread(h, Head(refs), content)
                      ELSE [heap |-> h, ref |-> Head(refs)]
           rest == UpdateFiles(first.heap, Tail(refs), fileName, content)
       IN [heap |-> rest.heap, refs |-> << first.ref >> \o rest.refs]

\* The objects JSON deserialisation makes of stored files.
RECURSIVE Deserialize(_, _)
Deserialize(h, templates) ==
  IF templates = << >> THEN [heap |-> h, files |-> << >>]
  ELSE LET files == Head(templates)
           refs == [i \in DOMAIN files |-> Len(h) + i]
           rest == Deserialize(h \o files, Tail(templates))
       IN [heap |-> rest.heap, files |-> << refs >> \o rest.files]

\* What a files array holds.
Deref(h, refs) == [i \in DOMAIN refs |-> h[refs[i]]]

HeapFrame ==
  UNCHANGED << storeVars, disk, now, nextId, svVars, sasVars, opVars,
               lastReturn, invoked, historyVars, recentVars, built, execSide >>

\* createProjectFromTemplate for a custom template (template.files is not
\* empty): the files are cloned and the project becomes the current one.
createFromCustomTemplate(q) ==
  /\ Len(projectFiles) < MaxClones
  /\ LET cloned == CloneFiles(heap, quickFiles[q])
     IN /\ heap' = cloned.heap
        /\ projectFiles' =
             Append(projectFiles, [template |-> q, files |-> cloned.refs])
  /\ currentIdx' = Len(projectFiles) + 1
  /\ UNCHANGED << quickFiles, templateStore, edits, saves >>
  /\ HeapFrame

\* setCurrentProject(project) with one of the projects made.
setCurrentObject(i) ==
  /\ i # currentIdx
  /\ currentIdx' = i
  /\ UNCHANGED << heap, quickFiles, templateStore, projectFiles, edits, saves >>
  /\ HeapFrame

\* updateFile on the current project: a new files array, a new object for
\* the file named.
updateFileObject(fileName, content) ==
  /\ currentIdx # 0
  /\ edits < MaxEdits
  /\ edits' = edits + 1
  /\ LET updated ==
           UpdateFiles(heap, projectFiles[currentIdx].files, fileName, content)
     IN /\ heap' = updated.heap
        /\ projectFiles' = [projectFiles EXCEPT ![currentIdx].files = updated.refs]
  /\ UNCHANGED << quickFiles, templateStore, saves, currentIdx >>
  /\ HeapFrame

\* saveAsTemplate: the clone of the current files goes to storage, and
\* loadQuickTemplates reads every custom template back; a failed save stores
\* nothing, a failed reload leaves the built-in templates alone.
saveAsTemplate(outcome) ==
  /\ currentIdx # 0
  /\ saves < MaxSaved
  /\ saves' = saves + 1
  /\ LET cloned == CloneFiles(heap, projectFiles[currentIdx].files)
         stored == Append(templateStore, Deref(cloned.heap, cloned.refs))
         reloaded == Deserialize(cloned.heap, stored)
     IN CASE outcome = "save-failed" ->
               /\ heap' = cloned.heap
               /\ UNCHANGED << quickFiles, templateStore >>
          [] outcome = "reload-failed" ->
               /\ heap' = cloned.heap
               /\ templateStore' = stored
               /\ quickFiles' = << >>
          [] OTHER ->
               /\ heap' = reloaded.heap
               /\ templateStore' = stored
               /\ quickFiles' = reloaded.files
  /\ UNCHANGED << projectFiles, edits, currentIdx >>
  /\ HeapFrame

NextObjects ==
  \/ \E q \in DOMAIN quickFiles : createFromCustomTemplate(q)
  \/ \E i \in DOMAIN projectFiles : setCurrentObject(i)
  \/ \E n \in FileNames(CustomFiles) :
       \E c \in EditContents \cup {"y"} : updateFileObject(n, c)
  \/ \E outcome \in {"save-failed", "reload-failed", "saved"} :
       saveAsTemplate(outcome)

SpecObjects == InitStore /\ [][NextObjects]_vars

\* C20 - clone isolation: an updateFile call on the current project changes
\* the file contents of no other project and of no custom template, loaded or
\* stored; saveAsTemplate stores the current project's files as they are, and
\* a loaded template always holds what storage holds for it.
Edited == edits' # edits
TemplateSaved == Len(templateStore') = Len(templateStore) + 1
CloneIsolation ==
  [][ /\ Edited =>
           /\ \A i \in DOMAIN projectFiles :
                i # currentIdx =>
                  Deref(heap', projectFiles'[i].files)
                    = Deref(heap, projectFiles[i].files)
           /\ \A q \in DOMAIN quickFiles :
                Deref(heap', quickFiles'[q]) = Deref(heap, quickFiles[q])
           /\ templateStore' = templateStore
      /\ TemplateSaved =>
           templateStore'[Len(templateStore')]
             = Deref(heap, projectFiles[currentIdx].files)
      /\ \A q \in DOMAIN quickFiles' :
           Deref(heap', quickFiles'[q]) = templateStore'[q]
    ]_vars

\* Two projects made from the same custom template hold different contents,
\* one of them edited, and a template saved from a project has been loaded.
ClonesDiverged ==
  /\ edits > 0
  /\ Len(quickFiles) = 2
  /\ \E i, j \in DOMAIN projectFiles :
       /\ projectFiles[i].template = projectFiles[j].template
       /\ Deref(heap, projectFiles[i].files) # Deref(heap, projectFiles[j].files)
       /\ Deref(heap, projectFiles[j].files) = CustomFiles

(***************************************************************************)
(* useAutosave: the interval timer of an editor window.                    *)
(***************************************************************************)
\* [isDirty, currentProject?.savedPath, saveProject]: the action is the same
\* function for the store's life; the path is undefined without a project.
AutosaveDeps ==
  [ isDirty |-> isDirty,
    project |-> currentProject # NoProject,
    savedPath |-> IF currentProject = NoProject
                    THEN NoPath ELSE currentProject.savedPath ]

\* The id setInterval hands out: one no live timer has.
FreshTimer(live) == CHOOSE n \in 1..(Cardinality(live) + 1) : n \notin live

\* What the window's store actions leave alone in this machine.
AutosaveIdle ==
  /\ SasHistory /\ OpHistory
  /\ UNCHANGED << launcherVars, editorVars, executorVars, runHistoryVars,
                  timers, autosaveTimer, effectDeps, closeVars >>
  /\ ticked' = FALSE

AutosaveFrame ==
  /\ ticked' = FALSE
  /\ UNCHANGED << storeSide, editorVars, executorVars, runHistoryVars,
                  closeVars >>

\* The effect without the cleanup of its previous run.
useAutosaveEffectNoCleanup ==
  /\ effectDeps \notin {AutosaveDeps, Unmounted}
  /\ IF ~isDirty \/ AutosaveDeps.savedPath = NoPath
       THEN UNCHANGED timers /\ autosaveTimer' = NoTimer
       ELSE /\ timers' = timers \cup {FreshTimer(timers)}
            /\ autosaveTimer' = FreshTimer(timers)
  /\ effectDeps' = AutosaveDeps
  /\ AutosaveFrame

\* A render found the dependencies changed (or it is the first): the cleanup
\* the previous run returned, then the effect.
useAutosaveEffect ==
  /\ effectDeps \notin {AutosaveDeps, Unmounted}
  /\ LET cleared == timers \ {autosaveTimer}
         id == FreshTimer(cleared)
     IN IF ~isDirty \/ AutosaveDeps.savedPath = NoPath
          THEN timers' = cleared /\ autosaveTimer' = NoTimer
          ELSE timers' = cleared \cup {id} /\ autosaveTimer' = id
  /\ effectDeps' = AutosaveDeps
  /\ AutosaveFrame

\* The component unmounts: the cleanup alone.
useAutosaveUnmount ==
  /\ effectDeps # Unmounted
  /\ timers' = timers \ {autosaveTimer}
  /\ autosaveTimer' = NoTimer
  /\ effectDeps' = Unmounted
  /\ AutosaveFrame

\* A live timer fires: saveProject().
AutosaveTick ==
  /\ timers # {}
  /\ saveProjectCall
  /\ SasHistory /\ OpHistory
  /\ UNCHANGED << launcherVars, editorVars, executorVars, runHistoryVars,
                  timers, autosaveTimer, effectDeps, closeVars >>
  /\ ticked' = TRUE

NextAutosave ==
  \/ \E t \in StoreTemplates : LoadTempBuilt(t) /\ AutosaveIdle
  \/ \E p \in Paths : LoadTempSaved(p) /\ AutosaveIdle
  \/ \E n \in EditableNames : \E c \in ContentsFor(n) :
       updateFile(n, c) /\ AutosaveIdle
  \/ useAutosaveEffect
  \/ useAutosaveUnmount
  \/ AutosaveTick
  \/ \E ok \in BOOLEAN : saveProjectWritten(ok) /\ AutosaveIdle
  \/ \E p \in Paths \cup {NoPath} : saveProjectAsPicked(p) /\ AutosaveIdle
  \/ \E ok \in BOOLEAN : saveProjectAsWritten(ok) /\ AutosaveIdle
  \/ \E ok \in BOOLEAN : saveProjectAsRecent(ok) /\ AutosaveIdle

SpecAutosave == InitStore /\ [][NextAutosave]_vars

\* C14 - autosave timer: a window never has more than one interval timer;
\* once the effect has run for the current isDirty and savedPath, a timer
\* exists exactly when isDirty is true and savedPath is not null; a tick makes
\* one saveProject call.
EffectRanForCurrent == effectDeps = AutosaveDeps
ShouldAutosave ==
  isDirty /\ currentProject # NoProject /\ currentProject.savedPath # NoPath
SaveProjectEntered ==
  \/ lastReturn' = Return("saveProject", FALSE, "no-project") /\ invoked' = {}
  \/ /\ svPc = "idle" /\ svPc' = "writing" /\ UNCHANGED sasPc
     /\ CallNames(invoked') = {"save_project_to_path"}
  \/ /\ sasPc = "idle" /\ sasPc' = "picking" /\ sasViaSave' /\ UNCHANGED svPc
     /\ CallNames(invoked') = {"dialog.save"}
AutosaveTimerDiscipline ==
  [][ /\ Cardinality(timers') <= 1
      /\ EffectRanForCurrent' => (timers' # {} <=> ShouldAutosave')
      /\ ticked' => (SaveProjectEntered /\ Cardinality(invoked') <= 1)
    ]_vars

\* The one timer of a dirty saved project has ticked, the effect having run
\* for the project's present state, and the write is under way.
AutosaveTicked ==
  /\ ticked
  /\ EffectRanForCurrent
  /\ ShouldAutosave
  /\ timers = {autosaveTimer}
  /\ svPc = "writing"

(***************************************************************************)
(* CompiledEditor: the execution coordinator of one editor window.         *)
(***************************************************************************)
\* The store and the autosave hook are left alone.
StoreIdle == UNCHANGED << storeSide, autosaveVars, closeVars >>

\* useProjectLoader has loaded the window's project into its store.
LoadProject(w, project) ==
  /\ loaded[w] = "none"
  /\ loaded' = [loaded EXCEPT ![w] = project]
  /\ UNCHANGED << isRunning, result, streamingOutput, seen, runRejected,
                  stopReplies, listenerScope, mounted, executorVars, runHistoryVars >>
  /\ StoreIdle

\* The component has rendered and its effects have run: handleRun and
\* handleStop are rebuilt over the current state, handlersRef.current and the
\* shortcut and button handlers are the new ones.
Render(w) ==
  /\ seen[w] # [isRunning |-> isRunning[w], currentProject |-> loaded[w]]
  /\ seen' = [seen EXCEPT ![w] =
                [isRunning |-> isRunning[w], currentProject |-> loaded[w]]]
  /\ UNCHANGED << loaded, isRunning, result, streamingOutput, runRejected,
                  stopReplies, listenerScope, mounted, executorVars, runHistoryVars >>
  /\ StoreIdle

RECURSIVE SumOver(_, _)
SumOver(f, S) ==
  IF S = {} THEN 0
  ELSE LET x == CHOOSE y \in S : TRUE IN f[x] + SumOver(f, S \ {x})
RunsIssued == SumOver(runSeq, Windows)

\* handleRun up to `await invoke(config.executor, ...)`; the guard reads the
\* state the handler was rendered with.
handleRun(w) ==
  /\ IF seen[w].currentProject = "none" \/ seen[w].isRunning
       THEN UNCHANGED << isRunning, result, streamingOutput, runCalls,
                         runHistoryVars >>
       ELSE IF seen[w].currentProject = "no-files"
         THEN UNCHANGED << isRunning, result, streamingOutput, runCalls,
                           runHistoryVars >>
         ELSE /\ RunsIssued < MaxRuns
              /\ isRunning' = [isRunning EXCEPT ![w] = TRUE]
              /\ result' = [result EXCEPT ![w] = NoResult]
              /\ streamingOutput' = [streamingOutput EXCEPT ![w] = EmptyOutput]
              /\ runCalls' = [runCalls EXCEPT ![w] = @ + 1]
              /\ runSeq' = [runSeq EXCEPT ![w] = @ + 1]
              /\ ended' = [ended EXCEPT ![w] = "none"]
  /\ UNCHANGED << loaded, seen, runRejected, stopReplies, listenerScope, mounted,
                  stopCalls, procs, chan >>
  /\ StoreIdle

\* The catch of handleRun with exitCode 0 and isRunning left alone.
handleRunRejectedAsSuccess(w) ==
  /\ runRejected[w] # << >>
  /\ runRejected' = [runRejected EXCEPT ![w] = Tail(@)]
  /\ result' = [result EXCEPT ![w] =
                  ExecutionResult("", StringOf(Head(runRejected[w])), 0, 0)]
  /\ UNCHANGED << loaded, isRunning, streamingOutput, seen, stopReplies,
                  listenerScope, mounted, executorVars, runHistoryVars >>
  /\ StoreIdle

\* The catch of handleRun: the executor call was rejected.
handleRunRejected(w) ==
  /\ runRejected[w] # << >>
  /\ runRejected' = [runRejected EXCEPT ![w] = Tail(@)]
  /\ result' = [result EXCEPT ![w] =
                  ExecutionResult("", StringOf(Head(runRejected[w])), -1, 0)]
  /\ isRunning' = [isRunning EXCEPT ![w] = FALSE]
  /\ UNCHANGED << loaded, streamingOutput, seen, stopReplies, listenerScope,
                  mounted, executorVars, runHistoryVars >>
  /\ StoreIdle

\* handleStop up to `await invoke("stop_execution", ...)`.
handleStop(w) ==
  /\ IF ~seen[w].isRunning
       THEN UNCHANGED stopCalls
       ELSE /\ stopCalls[w] + Len(stopReplies[w]) < MaxStops
            /\ stopCalls' = [stopCalls EXCEPT ![w] = @ + 1]
  /\ UNCHANGED << editorVars, runCalls, procs, chan, runHistoryVars >>
  /\ StoreIdle

\* handleStop after the await with setIsRunning(false) left out.
handleStopRepliedKeepsRunning(w) ==
  /\ stopReplies[w] # << >>
  /\ stopReplies' = [stopReplies EXCEPT ![w] = Tail(@)]
  /\ ended' = [ended EXCEPT ![w] =
                 IF Head(stopReplies[w]) /\ @ = "none" THEN "stopped" ELSE @]
  /\ UNCHANGED << loaded, isRunning, result, streamingOutput, seen, runRejected,
                  listenerScope, mounted, executorVars, runSeq >>
  /\ StoreIdle

\* handleStop after the await: setIsRunning(false) on the acknowledgement, the
\* catch (a log line) on a failure.
handleStopReplied(w) ==
  /\ stopReplies[w] # << >>
  /\ stopReplies' = [stopReplies EXCEPT ![w] = Tail(@)]
  /\ IF Head(stopReplies[w])
       THEN /\ isRunning' = [isRunning EXCEPT ![w] = FALSE]
            /\ ended' = [ended EXCEPT ![w] = IF @ = "none" THEN "stopped" ELSE @]
       ELSE UNCHANGED << isRunning, ended >>
  /\ UNCHANGED << loaded, result, streamingOutput, seen, runRejected,
                  listenerScope, mounted, executorVars, runSeq >>
  /\ StoreIdle

\* The three listeners, as what they make of one window's state.
IsRunningAfter(event, running) ==
  CASE event.name = "execution:state-changed" -> event.payload
    [] event.name = "execution:completed" -> FALSE
    [] OTHER -> running

ResultAfter(event, current) ==
  IF event.name = "execution:completed" THEN event.payload ELSE current

\* The output listener putting the new line in front.
StreamingOutputAfterPrepend(event, prev) ==
  IF event.name = "execution:output"
    THEN [prev EXCEPT ![event.payload.stream] = event.payload.line \o @]
    ELSE prev

StreamingOutputAfter(event, prev) ==
  IF event.name = "execution:output"
    THEN [prev EXCEPT ![event.payload.stream] = @ \o event.payload.line]
    ELSE prev

\* The windows whose listeners receive an event addressed to window w:
\* appWindow.listen receives the window's own events, the global listen
\* (target Any) every window's.
Receivers(w) == IF listenerScope = "window" THEN {w} ELSE mounted

\* The oldest event addressed to w reaches the listeners.
Deliver(w) ==
  /\ chan[w] # << >>
  /\ chan' = [chan EXCEPT ![w] = Tail(@)]
  /\ LET event == Head(chan[w])
         to == Receivers(w)
     IN /\ isRunning' = [v \in Windows |->
             IF v \in to THEN IsRunningAfter(event, isRunning[v]) ELSE isRunning[v]]
        /\ result' = [v \in Windows |->
             IF v \in to THEN ResultAfter(event, result[v]) ELSE result[v]]
        /\ streamingOutput' = [v \in Windows |->
             IF v \in to THEN StreamingOutputAfter(event, streamingOutput[v])
                         ELSE streamingOutput[v]]
        /\ ended' = [v \in Windows |->
             IF v \in to /\ event.name = "execution:completed" /\ ended[v] = "none"
               THEN "completed" ELSE ended[v]]
  /\ UNCHANGED << loaded, seen, runRejected, stopReplies, listenerScope, mounted,
                  runCalls, stopCalls, procs, runSeq >>
  /\ StoreIdle

\* The output panel's onClear.
clearOutput(w) ==
  /\ result[w] # NoResult \/ streamingOutput[w] # EmptyOutput
  /\ result' = [result EXCEPT ![w] = NoResult]
  /\ streamingOutput' = [streamingOutput EXCEPT ![w] = EmptyOutput]
  /\ UNCHANGED << loaded, isRunning, seen, runRejected, stopReplies,
                  listenerScope, mounted, executorVars, runHistoryVars >>
  /\ StoreIdle

\* The command palette's "Clear Output": setResult(null).
paletteClearOutput(w) ==
  /\ result[w] # NoResult
  /\ result' = [result EXCEPT ![w] = NoResult]
  /\ UNCHANGED << loaded, isRunning, streamingOutput, seen, runRejected,
                  stopReplies, listenerScope, mounted, executorVars,
                  runHistoryVars >>
  /\ StoreIdle

\* OutputPanel showing the streamed text whenever there is some.
OutputPanelStreamingFirst(r, running, streaming) ==
  IF streaming.stdout # "" \/ streaming.stderr # ""
    THEN [view |-> "streaming",
          stdout |-> streaming.stdout, stderr |-> streaming.stderr]
    ELSE IF r # NoResult /\ ~running
      THEN [view |-> "result", stdout |-> r.stdout, stderr |-> r.stderr]
      ELSE [view |-> "none", stdout |-> "", stderr |-> ""]

\* What OutputPanel shows for (result, isRunning, streamingOutput).
OutputPanel(r, running, streaming) ==
  IF running /\ (streaming.stdout # "" \/ streaming.stderr # "")
    THEN [view |-> "streaming",
          stdout |-> streaming.stdout, stderr |-> streaming.stderr]
    ELSE IF r # NoResult /\ ~running
      THEN [view |-> "result", stdout |-> r.stdout, stderr |-> r.stderr]
      ELSE [view |-> "none", stdout |-> "", stderr |-> ""]

(***************************************************************************)
(* The executor and its event channel.                                     *)
(***************************************************************************)
\* The executor answers a run call: it starts the run, or rejects the call.
\* It has one run going per window id at most.
ExecutorRun(w, accept) ==
  /\ runCalls[w] > 0
  /\ runCalls' = [runCalls EXCEPT ![w] = @ - 1]
  /\ IF accept
       THEN /\ procs[w] = NoRun
            /\ procs' = [procs EXCEPT ![w] = [phase |-> "starting", outputs |-> 0]]
            /\ UNCHANGED runRejected
       ELSE /\ \E e \in Errors :
                 runRejected' = [runRejected EXCEPT ![w] = Append(@, e)]
            /\ UNCHANGED procs
  /\ UNCHANGED << loaded, isRunning, result, streamingOutput, seen, stopReplies,
                  listenerScope, mounted, stopCalls, chan, runHistoryVars >>
  /\ StoreIdle

\* The executor answers a stop call.
ExecutorStop(w, ok) ==
  /\ stopCalls[w] > 0
  /\ stopCalls' = [stopCalls EXCEPT ![w] = @ - 1]
  /\ stopReplies' = [stopReplies EXCEPT ![w] = Append(@, ok)]
  /\ UNCHANGED << loaded, isRunning, result, streamingOutput, seen, runRejected,
                  listenerScope, mounted, runCalls, procs, chan, runHistoryVars >>
  /\ StoreIdle

\* The run of window w emits its next event: running-state true, then output
\* lines, then the terminal event, then running-state false.
ExecutorEmit(w, event) ==
  /\ Len(chan[w]) < MaxQueued
  /\ LET run == procs[w]
     IN \/ /\ run.phase = "starting"
           /\ event = StateChanged(TRUE)
           /\ procs' = [procs EXCEPT ![w].phase = "running"]
        \/ /\ run.phase = "running"
           /\ event.name = "execution:output"
           /\ run.outputs < MaxOutputs
           /\ procs' = [procs EXCEPT ![w].outputs = @ + 1]
        \/ /\ run.phase = "running"
           /\ event.name = "execution:completed"
           /\ procs' = [procs EXCEPT ![w].phase = "ending"]
        \/ /\ run.phase = "ending"
           /\ event = StateChanged(FALSE)
           /\ procs' = [procs EXCEPT ![w] = NoRun]
  /\ chan' = [chan EXCEPT ![w] = Append(@, event)]
  /\ UNCHANGED << editorVars, runCalls, stopCalls, runHistoryVars >>
  /\ StoreIdle

InitExec ==
  /\ InitProjectStore
  /\ InitEditors
  /\ listenerScope = "window"
  /\ mounted = {windowId("p1")}

NextExec ==
  \/ \E w \in mounted : \E project \in Loadable : LoadProject(w, project)
  \/ \E w \in mounted : Render(w)
  \/ \E w \in mounted : handleRun(w)
  \/ \E w \in mounted : handleRunRejected(w)
  \/ \E w \in mounted : handleStop(w)
  \/ \E w \in mounted : handleStopReplied(w)
  \/ \E w \in mounted : Deliver(w)
  \/ \E w \in mounted : clearOutput(w)
  \/ \E w \in mounted : paletteClearOutput(w)
  \/ \E w \in mounted : \E accept \in BOOLEAN : ExecutorRun(w, accept)
  \/ \E w \in mounted : \E ok \in BOOLEAN : ExecutorStop(w, ok)
  \/ \E w \in mounted : \E b \in BOOLEAN : ExecutorEmit(w, StateChanged(b))
  \/ \E w \in mounted : \E l \in Lines : \E st \in Streams :
       ExecutorEmit(w, Output(l, st))
  \/ \E w \in mounted : \E r \in ExecutionResults : ExecutorEmit(w, Completed(r))

SpecExec == InitExec /\ [][NextExec]_vars

\* Two editor windows open, with window-scoped or global listeners.
InitWindows ==
  /\ InitProjectStore
  /\ InitEditors
  /\ listenerScope \in {"window", "any"}
  /\ mounted = Windows

\* The two windows' runs; their stop requests are left to SpecExec.
NextWindows ==
  \/ \E w \in mounted : \E project \in Loadable : LoadProject(w, project)
  \/ \E w \in mounted : Render(w)
  \/ \E w \in mounted : handleRun(w)
  \/ \E w \in mounted : handleRunRejected(w)
  \/ \E w \in mounted : Deliver(w)
  \/ \E w \in mounted : clearOutput(w)
  \/ \E w \in mounted : \E accept \in BOOLEAN : ExecutorRun(w, accept)
  \/ \E w \in mounted : \E b \in BOOLEAN : ExecutorEmit(w, StateChanged(b))
  \/ \E w \in mounted : \E l \in Lines : \E st \in Streams :
       ExecutorEmit(w, Output(l, st))
  \/ \E w \in mounted : \E r \in ExecutionResults : ExecutorEmit(w, Completed(r))

SpecWindows == InitWindows /\ [][NextWindows]_vars

\* One window whose runs print two different lines; every run call is
\* accepted and every stop acknowledged.
StreamLines == {"a", "b"}
NextStream ==
  \/ \E w \in mounted : LoadProject(w, "code")
  \/ \E w \in mounted : Render(w)
  \/ \E w \in mounted : handleRun(w)
  \/ \E w \in mounted : handleStop(w)
  \/ \E w \in mounted : handleStopReplied(w)
  \/ \E w \in mounted : Deliver(w)
  \/ \E w \in mounted : clearOutput(w)
  \/ \E w \in mounted : ExecutorRun(w, TRUE)
  \/ \E w \in mounted : ExecutorStop(w, TRUE)
  \/ \E w \in mounted : \E b \in BOOLEAN : ExecutorEmit(w, StateChanged(b))
  \/ \E w \in mounted : \E l \in StreamLines : \E st \in Streams :
       ExecutorEmit(w, Output(l, st))
  \/ \E w \in mounted : ExecutorEmit(w, Completed(ExecutionResult("", "", 0, 0)))

SpecStream == InitExec /\ [][NextStream]_vars

(***************************************************************************)
(* Properties of the execution coordinator.                                *)
(***************************************************************************)
\* The step hands the oldest event addressed to w to the listeners.
Delivering(w) == chan[w] # << >> /\ chan'[w] = Tail(chan[w])
DeliveringNamed(w, name) == Delivering(w) /\ Head(chan[w]).name = name
\* The step issues an executor run call for w.
RunRequested(w) == runCalls'[w] = runCalls[w] + 1
\* The step handles the executor's acknowledgement of a stop call of w.
StopAcknowledged(w) ==
  /\ stopReplies[w] # << >>
  /\ Head(stopReplies[w])
  /\ stopReplies'[w] = Tail(stopReplies[w])
\* The step runs the catch of handleRun for w.
RunRejectionCaught(w) ==
  runRejected[w] # << >> /\ runRejected'[w] = Tail(runRejected[w])

\* C2 - re-run guard: while a window's isRunning is true no step issues an
\* executor run call for it, whatever state the handler was rendered with.
RerunGuard ==
  [][ \A w \in Windows : isRunning[w] => ~RunRequested(w) ]_vars

\* C3 - no resurrection: once the window's (only) run has been stopped or
\* completed, isRunning goes from false to true only in a step that issues a
\* new run request, never on a late event of that run.
NoResurrection ==
  [][ \A w \in Windows :
        ( /\ listenerScope = "window"
          /\ runSeq[w] = 1
          /\ ended[w] # "none"
          /\ ~isRunning[w]
          /\ isRunning'[w] ) => RunRequested(w) ]_vars

\* C4 - stop tolerance: the step that handles a stop acknowledgement leaves
\* isRunning false, and a terminal event delivered after the stop replaces
\* the result and leaves isRunning false.
StopTolerance ==
  [][ \A w \in Windows :
        /\ StopAcknowledged(w) => ~isRunning'[w]
        /\ (ended[w] = "stopped" /\ DeliveringNamed(w, "execution:completed")) =>
             /\ ~isRunning'[w]
             /\ result'[w] = Head(chan[w]).payload
             /\ ended'[w] = "stopped" ]_vars

\* A stopped run whose terminal event has arrived after the stop.
LateTerminalSeen ==
  \E w \in Windows :
    /\ ended[w] = "stopped"
    /\ result[w] \in ExecutionResults
    /\ ~isRunning[w]

\* C5 - terminal supersedes streaming: the delivery of a terminal event leaves
\* isRunning false and result equal to the payload, and the output panel
\* shows the payload's stdout and stderr, not the streamed accumulators.
TerminalSupersedesStreaming ==
  [][ \A w \in Windows :
        DeliveringNamed(w, "execution:completed") =>
          LET payload == Head(chan[w]).payload
          IN \A v \in Receivers(w) :
               /\ ~isRunning'[v]
               /\ result'[v] = payload
               /\ OutputPanel(result'[v], isRunning'[v], streamingOutput'[v]) =
                    [view |-> "result",
                     stdout |-> payload.stdout, stderr |-> payload.stderr] ]_vars

\* A finished run whose streamed text is not the terminal result's.
TerminalShownOverStreamed ==
  \E w \in Windows :
    /\ ~isRunning[w]
    /\ result[w] \in ExecutionResults
    /\ streamingOutput[w] # EmptyOutput
    /\ streamingOutput[w].stdout # result[w].stdout
    /\ OutputPanel(result[w], isRunning[w], streamingOutput[w]).stdout =
         result[w].stdout

\* C6 - cross-window isolation: with windows A and B both running (each has
\* issued its run request and shows isRunning), the delivery of an event
\* addressed to A leaves B's isRunning, result and accumulators as they are.
BothRunning(w, v) ==
  /\ runSeq[w] = 1 /\ isRunning[w]
  /\ runSeq[v] = 1 /\ isRunning[v]
WindowIsolation ==
  [][ \A w \in Windows : \A v \in Windows \ {w} :
        (Delivering(w) /\ BothRunning(w, v)) =>
          /\ isRunning'[v] = isRunning[v]
          /\ result'[v] = result[v]
          /\ streamingOutput'[v] = streamingOutput[v] ]_vars

\* C7 - synchronous run rejection: the catch of a rejected executor call sets
\* result to {stdout "", stderr the error message, exitCode -1, durationMs 0}
\* and isRunning to false in the same step, consuming no event.
RunRejectionSynthesized ==
  [][ \A w \in Windows :
        RunRejectionCaught(w) =>
          /\ result'[w] = [stdout |-> "",
                           stderr |-> Head(runRejected[w]).value,
                           exitCode |-> -1,
                           durationMs |-> 0]
          /\ ~isRunning'[w]
          /\ chan' = chan ]_vars

\* A rejected run: the synthesized result is in place, nothing is running.
RunRejectionSeen ==
  \E w \in Windows :
    /\ result[w] = ExecutionResult("", "Error: Python is not installed", -1, 0)
    /\ ~isRunning[w]
    /\ runSeq[w] = 1

\* C15 - clear output: every clear action of a window, the output panel's
\* button and the command palette's "Clear Output" alike, leaves both
\* accumulators empty and the result absent, and isRunning as it was.
ClearAction(w) == clearOutput(w) \/ paletteClearOutput(w)
ClearResetsOutput ==
  [][ \A w \in mounted :
        ClearAction(w) =>
          /\ result'[w] = NoResult
          /\ streamingOutput'[w] = EmptyOutput
          /\ isRunning'[w] = isRunning[w]
    ]_vars

\* C22 - streaming accumulation, as first stated: a run request that enters
\* Running empties both accumulators and the result; while the window is
\* running the accumulators change in no other way than by an output event
\* {line, stream} putting line at the end of the accumulator of its stream.
RunEntered(w) == runSeq'[w] = runSeq[w] + 1
OutputHeard(w) ==
  \E v \in mounted :
    DeliveringNamed(v, "execution:output") /\ w \in Receivers(v)
LineAppended(w) ==
  \E v \in mounted :
    /\ DeliveringNamed(v, "execution:output")
    /\ w \in Receivers(v)
    /\ LET line == Head(chan[v]).payload.line
           stream == Head(chan[v]).payload.stream
       IN \A st \in Streams :
            streamingOutput'[w][st] =
              IF st = stream THEN streamingOutput[w][st] \o line
                             ELSE streamingOutput[w][st]
AccumulatesSinceRunStart ==
  [][ \A w \in mounted :
        /\ RunEntered(w) =>
             /\ streamingOutput'[w] = EmptyOutput
             /\ result'[w] = NoResult
        /\ OutputHeard(w) => LineAppended(w)
        /\ (isRunning[w] /\ ~RunEntered(w) /\ ~OutputHeard(w)) =>
             streamingOutput'[w] = streamingOutput[w]
    ]_vars

\* C22 - streaming accumulation, amended: the same, with the output panel's
\* Clear as the one other step that changes the accumulators, so that each
\* accumulator is the concatenation, in arrival order, of the lines received
\* for its stream since the run started or the output was last cleared.
AccumulatesSinceRunStartOrClear ==
  [][ \A w \in mounted :
        /\ RunEntered(w) =>
             /\ streamingOutput'[w] = EmptyOutput
             /\ result'[w] = NoResult
        /\ OutputHeard(w) => LineAppended(w)
        /\ (~RunEntered(w) /\ ~OutputHeard(w)) =>
             \/ streamingOutput'[w] = streamingOutput[w]
             \/ clearOutput(w)
    ]_vars

\* Two different lines have arrived on one stream since the run started.
TwoLinesAccumulated ==
  \E w \in mounted :
    /\ runSeq[w] > 0
    /\ streamingOutput[w].stdout \in {"ab", "ba"}

(***************************************************************************)
(* One window whose Run and Stop are pressed only once the component has   *)
(* rendered the state they read: a second run is requested only after      *)
(* isRunning has gone back to false.                                       *)
(***************************************************************************)
Rendered(w) == seen[w] = [isRunning |-> isRunning[w], currentProject |-> loaded[w]]

NextRerun ==
  \/ \E w \in mounted : LoadProject(w, "code")
  \/ \E w \in mounted : Render(w)
  \/ \E w \in mounted : Rendered(w) /\ handleRun(w)
  \/ \E w \in mounted : Rendered(w) /\ handleStop(w)
  \/ \E w \in mounted : handleStopReplied(w)
  \/ \E w \in mounted : Deliver(w)
  \/ \E w \in mounted : ExecutorRun(w, TRUE)
  \/ \E w \in mounted : ExecutorStop(w, TRUE)
  \/ \E w \in mounted : \E b \in BOOLEAN : ExecutorEmit(w, StateChanged(b))
  \/ \E w \in mounted : \E l \in Lines : \E st \in Streams :
       ExecutorEmit(w, Output(l, st))
  \/ \E w \in mounted : \E r \in ExecutionResults : ExecutorEmit(w, Completed(r))

SpecRerun == InitExec /\ [][NextRerun]_vars

\* C27 - old-run events do not clobber a new run: run 1 stopped, run 2
\* requested in the same window and not yet answered by the executor, the
\* terminal event that then arrives is run 1's; its delivery leaves run 2's
\* isRunning true and its result absent.
SecondRunPending(w) ==
  /\ runSeq[w] = 2
  /\ runCalls[w] > 0
  /\ isRunning[w]
  /\ result[w] = NoResult
OldRunEventsIgnored ==
  [][ \A w \in Windows :
        (SecondRunPending(w) /\ DeliveringNamed(w, "execution:completed")) =>
          /\ isRunning'[w]
          /\ result'[w] = NoResult
    ]_vars

(***************************************************************************)
(* useUnsavedChanges: the close-requested listener of an editor window,    *)
(* the unsaved-changes dialog and its Save / Discard / Cancel handlers.    *)
(* The window collaborator hands each close request to the listeners that  *)
(* are registered, and closes the window unless one of them prevents it.   *)
(***************************************************************************)
\* What a store step leaves alone in this machine; handleSave, waiting on
\* `await saveProject()`, goes on in the step in which saveProject returns:
\* setState({ showDialog: false, ... }) and getCurrentWindow().close().
HandleSaveResumes(waiting) ==
  IF waiting /\ lastReturn'.op = "saveProject"
    THEN /\ ucState' = DialogClosed
         /\ closeRequests' = Append(closeRequests, "save")
         /\ hsPc' = "idle"
    ELSE /\ hsPc' = IF waiting THEN "saving" ELSE hsPc
         /\ UNCHANGED << ucState, closeRequests >>

CloseFrame ==
  /\ SasHistory /\ OpHistory
  /\ UNCHANGED << launcherVars, editorVars, executorVars, runHistoryVars,
                  autosaveVars >>

CloseStoreStep ==
  /\ windowOpen
  /\ CloseFrame
  /\ HandleSaveResumes(hsPc = "saving")
  /\ UNCHANGED << ucDeps, closeListeners, windowOpen >>

\* The user asks the window to close (the title bar's button, Alt+F4).
CloseRequest ==
  /\ windowOpen
  /\ Len(closeRequests) < MaxCloseRequests
  /\ closeRequests' = Append(closeRequests, "user")
  /\ UNCHANGED << storeSide, editorVars, executorVars, runHistoryVars,
                  autosaveVars, ucState, ucDeps, closeListeners, windowOpen, hsPc >>

\* The effect of useUnsavedChanges, its dependency [isDirty] having changed:
\* the cleanup of the previous run (unlistenFn() if the promise has set it),
\* then onCloseRequested with a handler that holds the new isDirty.
useUnsavedChangesEffect ==
  /\ windowOpen
  /\ ucDeps # isDirty
  /\ ucDeps' = isDirty
  /\ closeListeners' =
       { IF l.phase = "pending" THEN [l EXCEPT !.phase = "abandoned"] ELSE l :
           l \in { k \in closeListeners : k.phase # "current" } }
         \cup { CloseListener(isDirty, "pending") }
  /\ UNCHANGED << storeSide, editorVars, executorVars, runHistoryVars,
                  autosaveVars, ucState, closeRequests, windowOpen, hsPc >>

\* The promise of onCloseRequested resolves: the listener is registered and
\* .then((fn) => { unlistenFn = fn }) has run.
ListenerRegistered ==
  /\ windowOpen
  /\ \E l \in closeListeners :
       /\ l.phase \in {"pending", "abandoned"}
       /\ closeListeners' =
            (closeListeners \ {l}) \cup
              { [l EXCEPT !.phase = IF l.phase = "pending"
                                      THEN "current" ELSE "leaked"] }
  /\ UNCHANGED << storeSide, editorVars, executorVars, runHistoryVars,
                  autosaveVars, ucState, ucDeps, closeRequests, windowOpen, hsPc >>

ActiveListeners == { l \in closeListeners : l.phase \in {"current", "leaked"} }

\* The oldest close request reaches the registered listeners: a handler whose
\* isDirty is true prevents the close and opens the dialog.  The window
\* closes when no handler prevents it and stays when every handler does;
\* when the handlers disagree either may happen.
CloseRequested(closes) ==
  /\ windowOpen
  /\ closeRequests # << >>
  /\ closeRequests' = Tail(closeRequests)
  /\ LET prevented == \E l \in ActiveListeners : l.isDirty
         allowed == \E l \in ActiveListeners : ~l.isDirty
     IN /\ ucState' = IF prevented THEN DialogOpen ELSE ucState
        /\ closes = IF prevented /\ allowed THEN closes ELSE ~prevented
  /\ windowOpen' = ~closes
  /\ UNCHANGED << storeSide, editorVars, executorVars, runHistoryVars,
                  autosaveVars, ucDeps, closeListeners, hsPc >>

\* handleSave up to `await saveProject()`.
handleSave ==
  /\ windowOpen
  /\ ucState.showDialog
  /\ hsPc = "idle"
  /\ Len(closeRequests) < MaxCloseRequests
  /\ saveProjectCall
  /\ CloseFrame
  /\ HandleSaveResumes(TRUE)
  /\ UNCHANGED << ucDeps, closeListeners, windowOpen >>

\* handleDiscard: markClean(), setState, getCurrentWindow().close().
handleDiscard ==
  /\ windowOpen
  /\ ucState.showDialog
  /\ Len(closeRequests) < MaxCloseRequests
  /\ markClean
  /\ CloseFrame
  /\ ucState' = DialogClosed
  /\ closeRequests' = Append(closeRequests, "discard")
  /\ UNCHANGED << ucDeps, closeListeners, windowOpen, hsPc >>

handleCancel ==
  /\ windowOpen
  /\ ucState.showDialog
  /\ ucState' = DialogClosed
  /\ UNCHANGED << storeSide, editorVars, executorVars, runHistoryVars,
                  autosaveVars, ucDeps, closeListeners, closeRequests,
                  windowOpen, hsPc >>

NextClose ==
  \/ LoadTempBuilt("python") /\ CloseStoreStep
  \/ LoadTempSaved(PathB) /\ CloseStoreStep
  \/ \E c \in ContentsFor("main.py") : updateFile("main.py", c) /\ CloseStoreStep
  \/ \E ok \in BOOLEAN : saveProjectWritten(ok) /\ CloseStoreStep
  \/ \E p \in {PathA, NoPath} : saveProjectAsPicked(p) /\ CloseStoreStep
  \/ \E ok \in BOOLEAN : saveProjectAsWritten(ok) /\ CloseStoreStep
  \/ \E ok \in BOOLEAN : saveProjectAsRecent(ok) /\ CloseStoreStep
  \/ CloseRequest
  \/ useUnsavedChangesEffect
  \/ ListenerRegistered
  \/ \E closes \in BOOLEAN : CloseRequested(closes)
  \/ handleSave
  \/ handleDiscard
  \/ handleCancel

SpecClose == InitStore /\ [][NextClose]_vars

\* The step hands the oldest close request to the listeners.
CloseRequestHandled ==
  /\ closeRequests # << >>
  /\ closeRequests' = Tail(closeRequests)
  /\ hsPc' = hsPc

\* C28 - no silent loss on close: the window never closes while the store's
\* isDirty is true; every close request handled while it is true is prevented
\* and opens the unsaved-changes dialog (a failed save and a cancelled
\* save-as picker after the dialog's Save included).
NoSilentLossOnClose ==
  [][ /\ (windowOpen /\ ~windowOpen') => ~isDirty
      /\ (CloseRequestHandled /\ isDirty) =>
           /\ windowOpen'
           /\ ucState'.showDialog
    ]_vars

\* C29 - Discard closes the window: the close request handleDiscard issued,
\* handled while the store's isDirty is false, closes the window; no listener
\* that still holds isDirty = true prevents it and shows the dialog again.
DiscardCloses ==
  [][ (/\ CloseRequestHandled
       /\ Head(closeRequests) = "discard"
       /\ ~isDirty) =>
        /\ ~windowOpen'
        /\ ucState' = ucState
    ]_vars

(***************************************************************************)
(* The coordinator with an event loop and an executor that go on: every    *)
(* call is answered, every run started emits its events up to the last,    *)
(* every event emitted and every answer is handed to its handler.  What    *)
(* the user does (Run, Stop, Clear) and when React renders is left free.   *)
(***************************************************************************)
\* One window whose runs print to stdout and end with exit code 0.
NextEnds ==
  \/ \E w \in mounted : LoadProject(w, "code")
  \/ \E w \in mounted : Render(w)
  \/ \E w \in mounted : handleRun(w)
  \/ \E w \in mounted : handleRunRejected(w)
  \/ \E w \in mounted : handleStop(w)
  \/ \E w \in mounted : handleStopReplied(w)
  \/ \E w \in mounted : Deliver(w)
  \/ \E w \in mounted : \E accept \in BOOLEAN : ExecutorRun(w, accept)
  \/ \E w \in mounted : \E ok \in BOOLEAN : ExecutorStop(w, ok)
  \/ \E w \in mounted : \E b \in BOOLEAN : ExecutorEmit(w, StateChanged(b))
  \/ \E w \in mounted : \E l \in Lines : ExecutorEmit(w, Output(l, "stdout"))
  \/ \E w \in mounted : ExecutorEmit(w, Completed(ExecutionResult("ab", "", 0, 5)))

ExecutorAnswersRun ==
  \E w \in mounted : \E accept \in BOOLEAN : ExecutorRun(w, accept)
ExecutorAnswersStop ==
  \E w \in mounted : \E ok \in BOOLEAN : ExecutorStop(w, ok)
ExecutorEmits ==
  \E w \in mounted :
    \/ \E b \in BOOLEAN : ExecutorEmit(w, StateChanged(b))
    \/ \E l \in Lines : ExecutorEmit(w, Output(l, "stdout"))
    \/ ExecutorEmit(w, Completed(ExecutionResult("ab", "", 0, 5)))
EventHeard == \E w \in mounted : Deliver(w)
RejectionCaught == \E w \in mounted : handleRunRejected(w)
StopAnswerHandled == \E w \in mounted : handleStopReplied(w)

SpecEnds ==
  /\ InitExec /\ [][NextEnds]_vars
  /\ WF_vars(ExecutorAnswersRun)
  /\ WF_vars(ExecutorAnswersStop)
  /\ WF_vars(ExecutorEmits)
  /\ WF_vars(EventHeard)
  /\ WF_vars(RejectionCaught)
  /\ WF_vars(StopAnswerHandled)

\* C30 - every run ends: from every state in which a window's isRunning is
\* true a state in which it is false is reached; and the step that handles a
\* rejected run request, a terminal event or an acknowledged stop leaves
\* isRunning false, the Run button (disabled={isRunning}) enabled again.
EveryRunEnds ==
  /\ \A w \in Windows : isRunning[w] ~> ~isRunning[w]
  /\ [][ \A w \in Windows :
           ( \/ RunRejectionCaught(w)
             \/ DeliveringNamed(w, "execution:completed")
             \/ StopAcknowledged(w) ) => ~isRunning'[w]
       ]_vars

\* A run has gone from its request to its end: its terminal event and the
\* running-state event after it are handled, the executor has nothing left,
\* and the window is idle again.
RunEndedIdle ==
  \E w \in Windows :
    /\ runSeq[w] > 0
    /\ ended[w] = "completed"
    /\ ~isRunning[w]
    /\ result[w] \in ExecutionResults
    /\ procs[w] = NoRun
    /\ chan[w] = << >>
    /\ runCalls[w] = 0 /\ runRejected[w] = << >>

====
